---- MODULE Spec2Model ----
(***************************************************************************)
(* Command search and storage subsystem of tldr-app.                       *)
(*                                                                         *)
(* The durable store is one SQLite connection (DatabaseService) used by    *)
(* SQLiteCommandStorage.  Every awaited statement is one step: between two *)
(* statements of one call, statements of another call may run on the same  *)
(* connection.  A statement may fail (the engine reports an error); run,   *)
(* get and all never reject, they resolve to {success: false}.             *)
(*                                                                         *)
(* The facade (CommandService) runs in the host process, where it uses the *)
(* storage service directly, or in the display process, where it uses the  *)
(* bridge to the host.  The storage service is backed by the durable store *)
(* or by MemoryCommandStorage.                                             *)
(***************************************************************************)
EXTENDS Integers, Sequences, FiniteSets, TLC

(***************************************************************************)
(* Bounds.                                                                 *)
(***************************************************************************)
MaxSaves == 2
MaxFaults == 1
MaxCalls == 2
MaxLog == 1
MaxNow == 2
MaxBoots == 2

(***************************************************************************)
(* Values.  A string that may contain line breaks is the sequence of its   *)
(* lines: <<"a", "b">> is "a\nb", <<"">> is the empty string.  Strings     *)
(* that are never joined or split are plain.                               *)
(***************************************************************************)
Null == "<null>"
NoId == 0

E1 == <<"ls -la">>
E2 == <<"ls -h">>
E3 == <<"List all", "ls -a">>

Names == {"ls", "cd"}

Payloads ==
  { [summary |-> "s1", standsFor |-> "list", category |-> "files",
     examples |-> <<E1>>, content |-> "c1"],
    [summary |-> "s2", standsFor |-> "", category |-> "",
     examples |-> <<E1, E2>>, content |-> "c2"],
    [summary |-> "s2", standsFor |-> "list", category |-> "dirs",
     examples |-> <<>>, content |-> ""],
    [summary |-> "s1", standsFor |-> "", category |-> "",
     examples |-> <<E3>>, content |-> ""] }

Command(n, p) ==
  [name |-> n, summary |-> p.summary, standsFor |-> p.standsFor,
   category |-> p.category, examples |-> p.examples, content |-> p.content]

Commands == { Command(n, p) : n \in Names, p \in Payloads }

Tasks == {1, 2}

VARIABLES
  db,           \* the tables as the connection sees them
  snap,         \* the tables as of the open transaction's BEGIN
  inTxn,        \* the connection has an open transaction
  dbState,      \* DatabaseService.db: "null", "open" or "broken"
  contentTypes, \* names in the content_types table
  pc,           \* per task: the statement its saveCommand call issues next
  loc,          \* per task: locals of the saveCommand call in flight
  last,         \* per task: the last completed saveCommand call
  ctx,          \* per task: the importCommands loop the call belongs to
  faults,       \* statements the engine has failed so far
  saves,        \* saveCommand calls started by callers so far
  role,         \* the process the facade runs in: "host" or "display"
  backend,      \* what StorageService.getInstance chose: "sqlite" or "memory"
  initialized,  \* CommandService.initialized
  useMemoryFallback, \* CommandService.useMemoryFallback
  mem,          \* MemoryCommandStorage: commands and history
  fpc,          \* per task: where its facade call stands
  fop,          \* per task: the facade call in flight
  fres,         \* per task: what the last facade call returned, until the next
  initInfo,     \* what the facade's init() saw and did
  calls,        \* storage-service methods and bridge channels used so far
  ncalls,       \* facade calls started so far
  now,          \* the clock, in seconds
  apiCache,     \* rows of the api_cache table
  ores,         \* what the last single-statement store operation returned
  boot,         \* DatabaseService.initialize: its flag, connections, progress
  written       \* per cache key: the entry the latest successful addToCache stored

storeVars ==
  <<db, snap, inTxn, dbState, contentTypes, pc, loc, last, ctx, faults, saves>>

facadeVars ==
  <<role, backend, initialized, useMemoryFallback, mem, fpc, fop, fres,
    initInfo, calls, ncalls>>

opsVars == <<now, apiCache, ores, boot, written>>

vars == <<storeVars, facadeVars, opsVars>>

(***************************************************************************)
(* Tables.                                                                 *)
(***************************************************************************)
EmptyDb ==
  [categories |-> {}, commands |-> {}, examples |-> {}, contents |-> {},
   history |-> <<>>]

SetMax(S) == CHOOSE m \in S : \A x \in S : x <= m

\* INTEGER PRIMARY KEY without AUTOINCREMENT: largest rowid + 1
NextId(rows) == IF rows = {} THEN 1 ELSE SetMax({r.id : r \in rows}) + 1

Ids(rows) == {r.id : r \in rows}

\* what a reopened connection would see
Durable == IF inTxn THEN snap ELSE db

(***************************************************************************)
(* Reading a command row: the SELECT of getCommandByName and rowToCommand.  *)
(***************************************************************************)
RECURSIVE SortById(_)
SortById(rows) ==
  IF rows = {} THEN <<>>
  ELSE LET r == CHOOSE x \in rows : \A y \in rows : x.id <= y.id
       IN <<r>> \o SortById(rows \ {r})

RECURSIVE JoinLines(_)
\* GROUP_CONCAT(example, '\n') over at least one row, rows in rowid order
JoinLines(strs) ==
  IF Len(strs) = 1 THEN strs[1] ELSE strs[1] \o JoinLines(Tail(strs))

\* (SELECT GROUP_CONCAT(example, '\n') ...): <<>> stands for SQL NULL
GroupConcatExamples(d, cid) ==
  LET rows == SortById({e \in d.examples : e.command_id = cid})
  IN IF rows = <<>> THEN <<>>
     ELSE JoinLines([k \in 1..Len(rows) |-> rows[k].example])

CommandRow(d, c) ==
  LET cat == {g \in d.categories : g.id = c.category_id}
      body == {b \in d.contents : b.command_id = c.id /\ b.type = "tldr"
                                  /\ "tldr" \in contentTypes}
  IN [id |-> c.id, name |-> c.name, stands_for |-> c.stands_for,
      summary |-> c.summary,
      category |-> IF cat = {} THEN Null ELSE (CHOOSE g \in cat : TRUE).name,
      examples |-> GroupConcatExamples(d, c.id),
      tldr_content |-> IF body = {} THEN Null
                       ELSE (CHOOSE b \in body : TRUE).content]

\* row.examples ? row.examples.split("\n") : []
SplitExamples(joined) ==
  IF joined = <<>> \/ joined = <<"">> THEN <<>>
  ELSE [k \in 1..Len(joined) |-> <<joined[k]>>]

rowToCommand(row) ==
  [found |-> TRUE, id |-> row.id, name |-> row.name,
   standsFor |-> row.stands_for, summary |-> row.summary,
   description |-> row.summary,
   category |-> IF row.category = Null THEN "" ELSE row.category,
   examples |-> SplitExamples(row.examples),
   content |-> row.tldr_content]

NoCommand ==
  [found |-> FALSE, id |-> NoId, name |-> "", standsFor |-> Null,
   summary |-> "", description |-> "", category |-> "", examples |-> <<>>,
   content |-> Null]

\* ok is false when the statement fails or the store is not open
getCommandByName(d, name, ok) ==
  LET rows == {c \in d.commands : c.name = name}
  IN IF ok /\ rows # {} THEN rowToCommand(CommandRow(d, CHOOSE c \in rows : TRUE))
     ELSE NoCommand

(***************************************************************************)
(* Values returned by saveCommand: a boolean, or the DbResult object of    *)
(* DatabaseService.transaction.                                            *)
(***************************************************************************)
Bool(b) == [type |-> "boolean", val |-> b]
DbResult(b) == [type |-> "DbResult", val |-> b]
Truthy(v) == v.type # "boolean" \/ v.val

NoLoc ==
  [cmd |-> Command("", CHOOSE p \in Payloads : p.examples = <<>>),
   categoryId |-> NoId, commandId |-> NoId, i |-> 1, existed |-> FALSE,
   writeFailed |-> FALSE, faulted |-> FALSE, pre |-> EmptyDb]

NoCall ==
  [valid |-> FALSE, cmd |-> NoLoc.cmd, ret |-> Bool(FALSE), outcome |-> "none",
   writeFailed |-> FALSE, faulted |-> FALSE, existed |-> FALSE,
   commandId |-> NoId, pre |-> EmptyDb]

Finished(t, ret, outcome, fail) ==
  [valid |-> TRUE, cmd |-> loc[t].cmd, ret |-> ret, outcome |-> outcome,
   writeFailed |-> loc[t].writeFailed, faulted |-> loc[t].faulted \/ fail,
   existed |-> loc[t].existed, commandId |-> loc[t].commandId,
   pre |-> loc[t].pre]

(***************************************************************************)
(* The engine.                                                             *)
(***************************************************************************)
\* the failures the engine may choose for the statement being executed
FailChoices == IF faults < MaxFaults THEN {FALSE, TRUE} ELSE {FALSE}

\* DatabaseService.run / get: the statement reaches an open connection and
\* the engine does not fail it
StmtOk(fail) == dbState = "open" /\ ~fail

Charge(fail) == faults' = IF fail THEN faults + 1 ELSE faults

\* the step after the command row is written
AfterCommand(c) ==
  IF Len(c.examples) > 0 THEN "exDelete"
  ELSE IF c.content # "" THEN "ctLookup" ELSE "histInsert"

AfterExamples(c) == IF c.content # "" THEN "ctLookup" ELSE "histInsert"

(***************************************************************************)
(* SQLiteCommandStorage.saveCommand, one action per awaited statement.     *)
(***************************************************************************)
\* importCommands: const success = await this.saveCommand(command);
\* if (success) imported++
NoCtx == [kind |-> "none", queue |-> <<>>, imported |-> 0, committed |-> 0]

ReturnTo(t, ret, committed) ==
  ctx' = [ctx EXCEPT ![t] =
     IF @.kind = "import"
     THEN [kind |-> IF Len(@.queue) = 1 THEN "importDone" ELSE "import",
           queue |-> Tail(@.queue),
           imported |-> @.imported + (IF Truthy(ret) THEN 1 ELSE 0),
           committed |-> @.committed + (IF committed THEN 1 ELSE 0)]
     ELSE @]

\* saveCommand entered: transaction() checks this.db and runs BEGIN TRANSACTION
saveCommand(t, c) ==
  /\ pc[t] = "idle"
  /\ IF dbState = "null"
     THEN /\ last' = [last EXCEPT ![t] =
                 [valid |-> TRUE, cmd |-> c, ret |-> DbResult(FALSE),
                  outcome |-> "notInitialized", writeFailed |-> FALSE,
                  faulted |-> FALSE, existed |-> FALSE, commandId |-> NoId,
                  pre |-> db]]
          /\ ReturnTo(t, DbResult(FALSE), FALSE)
          /\ UNCHANGED <<db, snap, inTxn, pc, loc, faults>>
     ELSE \E fail \in FailChoices :
          LET ok == StmtOk(fail) /\ ~inTxn IN
          /\ Charge(fail)
          /\ inTxn' = (inTxn \/ ok)
          /\ snap' = IF ok THEN db ELSE snap
          /\ loc' = [loc EXCEPT ![t] = [NoLoc EXCEPT !.cmd = c, !.pre = db,
                                                      !.faulted = fail]]
          /\ pc' = [pc EXCEPT ![t] =
                 IF c.category # "" THEN "catLookup" ELSE "cmdLookup"]
          /\ UNCHANGED <<db, last, ctx>>
  /\ UNCHANGED <<dbState, contentTypes, opsVars>>

\* a caller saves one command
Begin(t, c) ==
  /\ ctx[t].kind = "none"
  /\ saves < MaxSaves
  /\ saves' = saves + 1
  /\ saveCommand(t, c)
  /\ UNCHANGED facadeVars

\* SQLiteCommandStorage.importCommands(commands) entered
importCommands(t, cs) ==
  /\ pc[t] = "idle"
  /\ ctx[t].kind # "import"
  /\ Len(cs) <= MaxSaves - saves
  /\ ctx' = [ctx EXCEPT ![t] =
         [NoCtx EXCEPT !.kind = IF cs = <<>> THEN "importDone" ELSE "import",
                       !.queue = cs]]
  /\ UNCHANGED <<db, snap, inTxn, dbState, contentTypes, opsVars, pc, loc, last,
                 faults, saves>>
  /\ UNCHANGED facadeVars

\* for (const command of commands): the next saveCommand of the loop
ImportNext(t) ==
  /\ ctx[t].kind = "import"
  /\ saves' = saves + 1
  /\ saveCommand(t, Head(ctx[t].queue))
  /\ UNCHANGED facadeVars

\* the caller takes the count importCommands returned
ImportReturn(t) ==
  /\ ctx[t].kind = "importDone"
  /\ ctx' = [ctx EXCEPT ![t] = NoCtx]
  /\ UNCHANGED <<db, snap, inTxn, dbState, contentTypes, opsVars, pc, loc, last,
                 faults, saves>>
  /\ UNCHANGED facadeVars

\* SELECT id FROM categories WHERE name = ?
CatLookup(t) ==
  /\ pc[t] = "catLookup"
  /\ \E fail \in FailChoices :
     LET rows == {g \in db.categories : g.name = loc[t].cmd.category}
         hit == StmtOk(fail) /\ rows # {} IN
     /\ Charge(fail)
     /\ loc' = [loc EXCEPT ![t].faulted = @ \/ fail,
                           ![t].categoryId =
            IF hit THEN (CHOOSE g \in rows : TRUE).id ELSE NoId]
     /\ pc' = [pc EXCEPT ![t] = IF hit THEN "cmdLookup" ELSE "catInsert"]
  /\ UNCHANGED <<db, snap, inTxn, dbState, contentTypes, opsVars, last, ctx, saves>>
  /\ UNCHANGED facadeVars

\* INSERT INTO categories (name) VALUES (?)
CatInsert(t) ==
  /\ pc[t] = "catInsert"
  /\ \E fail \in FailChoices :
     LET name == loc[t].cmd.category
         ok == StmtOk(fail) /\ \A g \in db.categories : g.name # name
         id == NextId(db.categories) IN
     /\ Charge(fail)
     /\ db' = IF ok
              THEN [db EXCEPT !.categories = @ \cup {[id |-> id, name |-> name]}]
              ELSE db
     /\ loc' = [loc EXCEPT ![t].faulted = @ \/ fail,
                           ![t].categoryId = IF ok THEN id ELSE NoId,
                           ![t].writeFailed = @ \/ ~ok]
     /\ pc' = [pc EXCEPT ![t] = "cmdLookup"]
  /\ UNCHANGED <<snap, inTxn, dbState, contentTypes, opsVars, last, ctx, saves>>
  /\ UNCHANGED facadeVars

\* const existingCommand = await this.getCommandByName(command.name)
CmdLookup(t) ==
  /\ pc[t] = "cmdLookup"
  /\ \E fail \in FailChoices :
     LET existing == getCommandByName(db, loc[t].cmd.name, StmtOk(fail)) IN
     /\ Charge(fail)
     /\ loc' = [loc EXCEPT ![t].faulted = @ \/ fail,
                           ![t].existed = existing.found,
                           ![t].commandId = existing.id]
     /\ pc' = [pc EXCEPT ![t] =
            IF existing.found THEN "cmdUpdate" ELSE "cmdInsert"]
  /\ UNCHANGED <<db, snap, inTxn, dbState, contentTypes, opsVars, last, ctx, saves>>
  /\ UNCHANGED facadeVars

\* command.standsFor || null
StandsForParam(c) == IF c.standsFor = "" THEN Null ELSE c.standsFor

\* FOREIGN KEY (category_id) REFERENCES categories(id)
CategoryFk(d, categoryId) == categoryId = NoId \/ categoryId \in Ids(d.categories)

UpdatedCommand(row, c, categoryId) ==
  [row EXCEPT !.summary = c.summary, !.stands_for = StandsForParam(c),
              !.category_id = categoryId]

\* UPDATE commands SET summary, stands_for, category_id WHERE name = ?
\* (the result is not inspected)
CmdUpdate(t) ==
  /\ pc[t] = "cmdUpdate"
  /\ \E fail \in FailChoices :
     LET c == loc[t].cmd
         ok == StmtOk(fail) /\ CategoryFk(db, loc[t].categoryId) IN
     /\ Charge(fail)
     /\ db' = IF ok
              THEN [db EXCEPT !.commands =
                      {IF r.name = c.name
                       THEN UpdatedCommand(r, c, loc[t].categoryId) ELSE r
                       : r \in @}]
              ELSE db
     /\ loc' = [loc EXCEPT ![t].faulted = @ \/ fail,
                           ![t].writeFailed = @ \/ ~ok]
     /\ pc' = [pc EXCEPT ![t] = AfterCommand(c)]
  /\ UNCHANGED <<snap, inTxn, dbState, contentTypes, opsVars, last, ctx, saves>>
  /\ UNCHANGED facadeVars

\* INSERT INTO commands (name, summary, stands_for, category_id);
\* a failure throws "Failed to insert command"
CmdInsert(t) ==
  /\ pc[t] = "cmdInsert"
  /\ \E fail \in FailChoices :
     LET c == loc[t].cmd
         ok == /\ StmtOk(fail)
               /\ \A r \in db.commands : r.name # c.name
               /\ CategoryFk(db, loc[t].categoryId)
         id == NextId(db.commands) IN
     /\ Charge(fail)
     /\ db' = IF ok
              THEN [db EXCEPT !.commands = @ \cup
                      {[id |-> id, name |-> c.name, summary |-> c.summary,
                        stands_for |-> StandsForParam(c),
                        category_id |-> loc[t].categoryId]}]
              ELSE db
     /\ loc' = [loc EXCEPT ![t].faulted = @ \/ fail,
                           ![t].commandId = IF ok THEN id ELSE NoId,
                           ![t].writeFailed = @ \/ ~ok]
     /\ pc' = [pc EXCEPT ![t] = IF ok THEN AfterCommand(c) ELSE "rollback"]
  /\ UNCHANGED <<snap, inTxn, dbState, contentTypes, opsVars, last, ctx, saves>>
  /\ UNCHANGED facadeVars

\* a DELETE FROM command_examples without its WHERE
DeleteExamplesOfAll(rows, commandId) == {}

\* what DELETE FROM command_examples WHERE command_id = ? leaves
DeleteExamples(rows, commandId) == {e \in rows : e.command_id # commandId}

\* DELETE FROM command_examples WHERE command_id = ?
ExDelete(t) ==
  /\ pc[t] = "exDelete"
  /\ \E fail \in FailChoices :
     LET ok == StmtOk(fail) IN
     /\ Charge(fail)
     /\ db' = IF ok
              THEN [db EXCEPT !.examples = DeleteExamples(@, loc[t].commandId)]
              ELSE db
     /\ loc' = [loc EXCEPT ![t].faulted = @ \/ fail,
                           ![t].writeFailed = @ \/ ~ok, ![t].i = 1]
     /\ pc' = [pc EXCEPT ![t] = "exInsert"]
  /\ UNCHANGED <<snap, inTxn, dbState, contentTypes, opsVars, last, ctx, saves>>
  /\ UNCHANGED facadeVars

\* INSERT INTO command_examples (command_id, example, sort_order)
ExInsert(t) ==
  /\ pc[t] = "exInsert"
  /\ \E fail \in FailChoices :
     LET c == loc[t].cmd
         i == loc[t].i
         ok == StmtOk(fail) /\ loc[t].commandId \in Ids(db.commands) IN
     /\ Charge(fail)
     /\ db' = IF ok
              THEN [db EXCEPT !.examples = @ \cup
                      {[id |-> NextId(db.examples),
                        command_id |-> loc[t].commandId,
                        example |-> c.examples[i], sort_order |-> i - 1]}]
              ELSE db
     /\ loc' = [loc EXCEPT ![t].faulted = @ \/ fail,
                           ![t].writeFailed = @ \/ ~ok, ![t].i = i + 1]
     /\ pc' = [pc EXCEPT ![t] =
            IF i < Len(c.examples) THEN "exInsert" ELSE AfterExamples(c)]
  /\ UNCHANGED <<snap, inTxn, dbState, contentTypes, opsVars, last, ctx, saves>>
  /\ UNCHANGED facadeVars

\* SELECT id FROM content_types WHERE name = 'tldr'
CtLookup(t) ==
  /\ pc[t] = "ctLookup"
  /\ \E fail \in FailChoices :
     /\ Charge(fail)
     /\ pc' = [pc EXCEPT ![t] =
            IF StmtOk(fail) /\ "tldr" \in contentTypes
            THEN "ctUpsert" ELSE "histInsert"]
     /\ loc' = [loc EXCEPT ![t].faulted = @ \/ fail]
  /\ UNCHANGED <<db, snap, inTxn, dbState, contentTypes, opsVars, last, ctx, saves>>
  /\ UNCHANGED facadeVars

\* INSERT OR REPLACE INTO command_content ... UNIQUE(command_id, content_type_id)
UpsertContent(d, cid, type, body) ==
  [d EXCEPT !.contents =
     {b \in @ : ~(b.command_id = cid /\ b.type = type)} \cup
     {[command_id |-> cid, type |-> type, content |-> body]}]

CtUpsert(t) ==
  /\ pc[t] = "ctUpsert"
  /\ \E fail \in FailChoices :
     LET ok == StmtOk(fail) /\ loc[t].commandId \in Ids(db.commands) IN
     /\ Charge(fail)
     /\ db' = IF ok
              THEN UpsertContent(db, loc[t].commandId, "tldr", loc[t].cmd.content)
              ELSE db
     /\ loc' = [loc EXCEPT ![t].faulted = @ \/ fail,
                           ![t].writeFailed = @ \/ ~ok]
     /\ pc' = [pc EXCEPT ![t] = "histInsert"]
  /\ UNCHANGED <<snap, inTxn, dbState, contentTypes, opsVars, last, ctx, saves>>
  /\ UNCHANGED facadeVars

\* INSERT INTO command_history (command_id, raw_input)
HistInsert(t) ==
  /\ pc[t] = "histInsert"
  /\ \E fail \in FailChoices :
     LET ok == StmtOk(fail) /\ loc[t].commandId \in Ids(db.commands) IN
     /\ Charge(fail)
     /\ db' = IF ok
              THEN [db EXCEPT !.history = Append(@,
                      [command_id |-> loc[t].commandId,
                       raw_input |-> loc[t].cmd.name,
                       timestamp |-> now])]
              ELSE db
     /\ loc' = [loc EXCEPT ![t].faulted = @ \/ fail,
                           ![t].writeFailed = @ \/ ~ok]
     /\ pc' = [pc EXCEPT ![t] = "commit"]
  /\ UNCHANGED <<snap, inTxn, dbState, contentTypes, opsVars, last, ctx, saves>>
  /\ UNCHANGED facadeVars

\* await this.run('COMMIT'); return { success: true }
\* saveCommand returns what transaction returned
Commit(t) ==
  /\ pc[t] = "commit"
  /\ \E fail \in FailChoices :
     LET ok == StmtOk(fail) /\ inTxn IN
     /\ Charge(fail)
     /\ inTxn' = IF ok THEN FALSE ELSE inTxn
     /\ last' = [last EXCEPT ![t] =
            Finished(t, DbResult(TRUE),
                     IF ok THEN "committed" ELSE "commitFailed", fail)]
     /\ ReturnTo(t, DbResult(TRUE), ok)
  /\ pc' = [pc EXCEPT ![t] = "idle"]
  /\ loc' = [loc EXCEPT ![t] = NoLoc]
  /\ UNCHANGED <<db, snap, dbState, contentTypes, opsVars, saves>>
  /\ UNCHANGED facadeVars

\* catch: await this.run('ROLLBACK'); return { success: false, error }
Rollback(t) ==
  /\ pc[t] = "rollback"
  /\ \E fail \in FailChoices :
     LET ok == StmtOk(fail) /\ inTxn IN
     /\ Charge(fail)
     /\ inTxn' = IF ok THEN FALSE ELSE inTxn
     /\ db' = IF ok THEN snap ELSE db
     /\ last' = [last EXCEPT ![t] =
            Finished(t, DbResult(FALSE),
                     IF ok THEN "rolledBack" ELSE "rollbackFailed", fail)]
     /\ ReturnTo(t, DbResult(FALSE), FALSE)
  /\ pc' = [pc EXCEPT ![t] = "idle"]
  /\ loc' = [loc EXCEPT ![t] = NoLoc]
  /\ UNCHANGED <<snap, dbState, contentTypes, opsVars, saves>>
  /\ UNCHANGED facadeVars

SaveStep(t) ==
  \/ CatLookup(t) \/ CatInsert(t) \/ CmdLookup(t) \/ CmdUpdate(t)
  \/ CmdInsert(t) \/ ExDelete(t) \/ ExInsert(t) \/ CtLookup(t)
  \/ CtUpsert(t) \/ HistInsert(t) \/ Commit(t) \/ Rollback(t)

(***************************************************************************)
(* Text.  The strings the facade scans are looked up as their characters.  *)
(***************************************************************************)
Chars(s) ==
  CASE s = "" -> <<>>
    [] s = " " -> <<" ">>
    [] s = "s" -> <<"s">>
    [] s = "x" -> <<"x">>
    [] s = "LS" -> <<"L", "S">>
    [] s = "ls" -> <<"l", "s">>
    [] s = "cd" -> <<"c", "d">>
    [] s = "git" -> <<"g", "i", "t">>
    [] s = "List" -> <<"L", "i", "s", "t">>
    [] s = "Vcs" -> <<"V", "c", "s">>
    [] s = "s1" -> <<"s", "1">>
    [] s = "s2" -> <<"s", "2">>
    [] s = "s0" -> <<"s", "0">>
    [] s = "list" -> <<"l", "i", "s", "t">>
    [] s = "ls -la" -> <<"l", "s", " ", "-", "l", "a">>
    [] s = "ls -h" -> <<"l", "s", " ", "-", "h">>
    [] s = "ls -a" -> <<"l", "s", " ", "-", "a">>
    [] s = "List all" -> <<"L", "i", "s", "t", " ", "a", "l", "l">>
    [] s = "  " -> <<" ", " ">>
    [] s = "@#" -> <<"@", "#">>
    [] s = "l@s" -> <<"l", "@", "s">>
    [] s = "-h" -> <<"-", "h">>

LowerChar(ch) ==
  CASE ch = "L" -> "l" [] ch = "S" -> "s" [] ch = "V" -> "v" [] OTHER -> ch

toLowerCase(cs) == [k \in DOMAIN cs |-> LowerChar(cs[k])]

\* hay.includes(needle)
includes(hay, needle) ==
  \E i \in 0..(Len(hay) - Len(needle)) :
    \A k \in 1..Len(needle) : hay[i + k] = needle[k]

RECURSIVE trimStart(_)
trimStart(cs) ==
  IF cs # <<>> /\ Head(cs) = " " THEN trimStart(Tail(cs)) ELSE cs

RECURSIVE trimEnd(_)
trimEnd(cs) ==
  IF cs # <<>> /\ cs[Len(cs)] = " " THEN trimEnd(SubSeq(cs, 1, Len(cs) - 1))
  ELSE cs

trim(cs) == trimEnd(trimStart(cs))

\* !query.trim()
Blank(q) == trim(Chars(q)) = <<>>

\* a slice that keeps the whole array
sliceWhole(seq, limit) == seq

\* array.slice(0, limit)
slice(seq, limit) == SubSeq(seq, 1, IF limit < Len(seq) THEN limit ELSE Len(seq))

RECURSIVE filter(_, _)
\* array.filter: the elements of seq at the positions in keep, in order
filter(seq, keep) ==
  IF seq = <<>> THEN <<>>
  ELSE LET rest == filter(SubSeq(seq, 1, Len(seq) - 1), keep)
       IN IF Len(seq) \in keep THEN Append(rest, seq[Len(seq)]) ELSE rest

(***************************************************************************)
(* The facade (CommandService) and what it scans when it falls back.       *)
(***************************************************************************)
DefaultLimit == 10

\* the legacy seed list
commandData ==
  << [name |-> "ls", standsFor |-> "list", description |-> "List",
      examples |-> <<E1, E2>>, category |-> "files"],
     [name |-> "git", standsFor |-> "", description |-> "Vcs",
      examples |-> <<>>, category |-> ""] >>

adaptLegacyCommand(legacyCommand) ==
  [name |-> legacyCommand.name, standsFor |-> legacyCommand.standsFor,
   summary |-> legacyCommand.description, category |-> legacyCommand.category,
   examples |-> legacyCommand.examples, content |-> ""]

\* a scan that looks at the name only
LegacyMatchesNameOnly(cmd, query) ==
  includes(toLowerCase(Chars(cmd.name)), toLowerCase(Chars(query)))

\* cmd.name.toLowerCase().includes(query.toLowerCase()) ||
\* (cmd.description && cmd.description.toLowerCase().includes(...))
LegacyMatches(cmd, query) ==
  \/ includes(toLowerCase(Chars(cmd.name)), toLowerCase(Chars(query)))
  \/ /\ cmd.description # ""
     /\ includes(toLowerCase(Chars(cmd.description)), toLowerCase(Chars(query)))

memorySearchCommands(query, limit) ==
  LET hits == filter(commandData,
                     {k \in DOMAIN commandData : LegacyMatches(commandData[k], query)})
      cut == slice(hits, limit)
  IN [k \in DOMAIN cut |-> adaptLegacyCommand(cut[k])]

\* commandData.find(c => c.name === name), adapted; <<>> stands for null
memoryGetCommandByName(name) ==
  LET at == {k \in DOMAIN commandData : commandData[k].name = name}
  IN IF at = {} THEN <<>>
     ELSE <<adaptLegacyCommand(commandData[CHOOSE k \in at : \A j \in at : k <= j])>>

\* MemoryCommandStorage as constructed
EmptyMem == [commands |-> <<>>, contentStore |-> {}, history |-> <<>>]

NoOp == [op |-> "none", query |-> "", limit |-> 0, name |-> "", cmd |-> NoLoc.cmd,
         id |-> NoId, queue |-> <<>>]

NoResult ==
  [valid |-> FALSE, op |-> "none", query |-> "", limit |-> 0, name |-> "",
   cmd |-> NoLoc.cmd, route |-> "none", bridgeOk |-> TRUE, fallback |-> FALSE,
   value |-> <<>>, ret |-> Bool(FALSE), settled |-> "returned"]

NoInit ==
  [outcome |-> "none", counted |-> FALSE, count |-> 0, imported |-> <<>>,
   done |-> FALSE, countAfter |-> 0]

\* a store that no facade is running on
FacadeUnused ==
  /\ role = "host"
  /\ backend = "sqlite"
  /\ initialized = FALSE
  /\ useMemoryFallback = FALSE
  /\ mem = EmptyMem
  /\ fpc = [t \in Tasks |-> "idle"]
  /\ fop = [t \in Tasks |-> NoOp]
  /\ fres = [t \in Tasks |-> NoResult]
  /\ initInfo = NoInit
  /\ calls = {}
  /\ ncalls = 0

(***************************************************************************)
(* The durable store used by one caller that awaits each saveCommand.      *)
(***************************************************************************)
\* the store operations outside saveCommand are not in use
NoOres ==
  [store |-> "none", op |-> "none", query |-> "", limit |-> 0, name |-> "",
   ok |-> TRUE, statement |-> "none", value |-> <<>>, at |-> 0,
   pre |-> [db |-> EmptyDb, cache |-> {}, mem |-> EmptyMem]]

CacheKeys == {"k1", "k2"}

\* no addToCache has stored an entry
NoEntry == [stored |-> FALSE, content |-> "", expires_at |-> 0]

\* what initialize() found when it was last called
NoPre ==
  [initialized |-> FALSE, dbState |-> "null", connections |-> 0,
   fileExists |-> FALSE, db |-> EmptyDb, contentTypes |-> {}, settings |-> {}]

\* what failed in the last call: named steps and schema pieces
NoneFailed == [steps |-> {}, pieces |-> {}]

NoBoot ==
  [engine |-> "native", initialized |-> FALSE, connections |-> 0,
   fileExists |-> TRUE, asset |-> FALSE, settings |-> {}, failed |-> NoneFailed, boots |-> 0,
   pre |-> NoPre,
   \* the connection this.db was last set to, the connection of each initSchema run, and
   \* the connection each initialize() call in flight created
   handle |-> NoId, schemaRuns |-> <<>>, opened |-> [t \in Tasks |-> NoId]]

OpsUnused ==
  /\ now = 1
  /\ apiCache = {}
  /\ ores = NoOres
  /\ boot = NoBoot
  /\ written = [k \in CacheKeys |-> NoEntry]

Init ==
  /\ db = EmptyDb
  /\ snap = EmptyDb
  /\ inTxn = FALSE
  /\ dbState \in {"open", "null"}
  /\ contentTypes \in {{}, {"tldr"}}
  /\ pc = [t \in Tasks |-> "idle"]
  /\ loc = [t \in Tasks |-> NoLoc]
  /\ last = [t \in Tasks |-> NoCall]
  /\ ctx = [t \in Tasks |-> NoCtx]
  /\ faults = 0
  /\ saves = 0
  /\ FacadeUnused
  /\ OpsUnused

\* the lists importCommands is called with
ImportLists == UNION {[1..k -> Commands] : k \in 0..MaxSaves}

Next ==
  \/ \E c \in Commands : Begin(1, c)
  \/ \E cs \in ImportLists : importCommands(1, cs)
  \/ ImportNext(1)
  \/ ImportReturn(1)
  \/ SaveStep(1)

Spec == Init /\ [][Next]_vars

(***************************************************************************)
(* Two callers with a saveCommand in flight at the same time on the one    *)
(* connection, each saving its own name.                                   *)
(***************************************************************************)
NameOf(t) == IF t = 1 THEN "ls" ELSE "cd"

InitConc ==
  /\ db = EmptyDb
  /\ snap = EmptyDb
  /\ inTxn = FALSE
  /\ dbState = "open"
  /\ contentTypes \in {{}, {"tldr"}}
  /\ pc = [t \in Tasks |-> "idle"]
  /\ loc = [t \in Tasks |-> NoLoc]
  /\ last = [t \in Tasks |-> NoCall]
  /\ ctx = [t \in Tasks |-> NoCtx]
  /\ faults = 0
  /\ saves = 0
  /\ FacadeUnused
  /\ OpsUnused

NextConc ==
  \E t \in Tasks :
    \/ \E c \in Commands : c.name = NameOf(t) /\ Begin(t, c)
    \/ SaveStep(t)

SpecConc == InitConc /\ [][NextConc]_vars

(***************************************************************************)
(* MemoryCommandStorage.                                                   *)
(***************************************************************************)
MemIndex(m, name) == {k \in DOMAIN m.commands : m.commands[k].cmd.name = name}

\* this.commands.find(c => c.name === name) || null; <<>> stands for null
Memory_getCommandByName(m, name) ==
  IF MemIndex(m, name) = {} THEN <<>>
  ELSE <<m.commands[CHOOSE k \in MemIndex(m, name) :
                      \A j \in MemIndex(m, name) : k <= j].cmd>>

\* a spread that lets the command's own id through
WithOwnId(ownId, id) == IF ownId = NoId THEN id ELSE ownId

\* { ...command, id }: the id written after the spread replaces the one the
\* command carries (ownId, NoId when it carries none)
WithId(ownId, id) == id

\* a save that always pushes
Memory_saveCommandAppend(m, c, ownId) ==
  LET id == IF m.commands = <<>> THEN 1
            ELSE SetMax({m.commands[k].id : k \in DOMAIN m.commands}) + 1
  IN [m EXCEPT !.commands = Append(@, [id |-> WithId(ownId, id), cmd |-> c])]

\* upsert by name; a new command gets the largest id + 1, or 1
Memory_saveCommand(m, c, ownId) ==
  IF MemIndex(m, c.name) # {}
  THEN LET i == CHOOSE k \in MemIndex(m, c.name) :
                  \A j \in MemIndex(m, c.name) : k <= j
       IN [m EXCEPT !.commands[i] = [id |-> WithId(ownId, @.id), cmd |-> c]]
  ELSE LET id == IF m.commands = <<>> THEN 1
                 ELSE SetMax({m.commands[k].id : k \in DOMAIN m.commands}) + 1
       IN [m EXCEPT !.commands = Append(@, [id |-> WithId(ownId, id), cmd |-> c])]

RECURSIVE Memory_importCommands(_, _)
\* for (const command of commands) await this.saveCommand(command); the
\* elements of cs are a command and the id it carries
Memory_importCommands(m, cs) ==
  IF cs = <<>> THEN m
  ELSE Memory_importCommands(Memory_saveCommand(m, Head(cs).cmd, Head(cs).id),
                             Tail(cs))

\* return commands.length
ImportedCount(cs) == Len(cs)

Memory_logCommandUsage(m, commandId, rawInput) ==
  [m EXCEPT !.history = Append(@, [commandId |-> commandId, rawInput |-> rawInput])]

Memory_getCommandCount(m) == Len(m.commands)

(***************************************************************************)
(* The queries of SQLiteCommandStorage and of MemoryCommandStorage.        *)
(***************************************************************************)
\* \w of the regular expression, over the characters in use
WordChars ==
  {"a", "c", "d", "g", "h", "i", "l", "s", "t", "L", "S", "V", "x", "0", "1",
   "2", "_"}

\* the characters [^\w\s*"\-] does not match
Kept(ch) == ch \in WordChars \cup {" ", "*", "\"", "-"}

RECURSIVE NormalizeSpaces(_)
\* .replace(/\s+/g, " ")
NormalizeSpaces(cs) ==
  IF cs = <<>> THEN <<>>
  ELSE IF Head(cs) = " " /\ Len(cs) > 1 /\ cs[2] = " "
       THEN NormalizeSpaces(Tail(cs))
       ELSE <<Head(cs)>> \o NormalizeSpaces(Tail(cs))

\* query.trim().replace(/[^\w\s*"\-]/g, " ").replace(/\s+/g, " ") on the
\* characters of a string
cleaned(cs) ==
  LET t == trim(cs)
  IN NormalizeSpaces([k \in DOMAIN t |-> IF Kept(t[k]) THEN t[k] ELSE " "])

\* the sanitizer without its trim()
sanitizeFtsQueryUntrimmed(query) ==
  IF query = "" THEN <<>>
  ELSE LET t == Chars(query)
       IN NormalizeSpaces([k \in DOMAIN t |-> IF Kept(t[k]) THEN t[k] ELSE " "])

\* if (!query) return ""; query.trim().replace(/[^\w\s*"\-]/g, " ")
\*   .replace(/\s+/g, " ")
sanitizeFtsQuery(query) == IF query = "" THEN <<>> ELSE cleaned(Chars(query))

\* ORDER BY c.name ASC over the names in use
NameOrder == <<"cd", "git", "ls">>

NameRank(name) == CHOOSE k \in DOMAIN NameOrder : NameOrder[k] = name

\* MAX(h.timestamp) of the LEFT JOIN; 0 stands for NULL, which sorts last
\* under DESC
MaxTimestamp(d, cid) ==
  LET ts == {d.history[k].timestamp :
               k \in {j \in DOMAIN d.history : d.history[j].command_id = cid}}
  IN IF ts = {} THEN 0 ELSE SetMax(ts)

\* ORDER BY c.name ASC alone
RecentBeforeByName(d, a, b) == NameRank(a.name) < NameRank(b.name)

\* ORDER BY MAX(h.timestamp) DESC, c.name ASC
RecentBefore(d, a, b) ==
  \/ MaxTimestamp(d, a.id) > MaxTimestamp(d, b.id)
  \/ /\ MaxTimestamp(d, a.id) = MaxTimestamp(d, b.id)
     /\ NameRank(a.name) < NameRank(b.name)

RECURSIVE SortRecent(_, _)
SortRecent(d, rows) ==
  IF rows = {} THEN <<>>
  ELSE LET r == CHOOSE x \in rows : \A y \in rows : ~RecentBefore(d, y, x)
       IN <<r>> \o SortRecent(d, rows \ {r})

\* LIMIT ?: a negative limit is no limit
SqlLimit(seq, limit) ==
  IF limit < 0 \/ limit >= Len(seq) THEN seq ELSE SubSeq(seq, 1, limit)

rowsToCommands(rows) == [k \in DOMAIN rows |-> rowToCommand(rows[k])]

\* result.success ? this.rowsToCommands(result.data || []) : []
SQLite_getRecentCommands(d, limit, ok) ==
  IF ~ok THEN <<>>
  ELSE LET sorted == SqlLimit(SortRecent(d, d.commands), limit)
       IN rowsToCommands([k \in DOMAIN sorted |-> CommandRow(d, sorted[k])])

\* the rows of command_search: only the triggers write them, and the schema
\* bootstrap creates no trigger (each CREATE TRIGGER holds ';' and the script
\* is split on ';')
command_search(d) == {}

\* FTS5 rejects a query it cannot parse; the words in use parse
MatchParses(clean) == clean \in {<<"s">>, <<"l", "s">>, <<"l", " ", "s">>}

\* JOIN command_search s ON c.id = s.rowid WHERE command_search MATCH ?
SQLite_match(d, clean, limit, ok) ==
  IF ~ok \/ ~MatchParses(clean) THEN <<>>
  ELSE LET hits == SqlLimit(SortById({c \in d.commands :
                                        c.id \in command_search(d)}), limit)
       IN rowsToCommands([k \in DOMAIN hits |-> CommandRow(d, hits[k])])

\* SQLiteCommandStorage.searchCommands: the statement it issues and what it
\* returns
SQLite_searchCommands(d, query, limit, ok) ==
  LET cleanQuery == sanitizeFtsQuery(query)
  IN IF cleanQuery = <<>>
     THEN [statement |-> "recent", value |-> SQLite_getRecentCommands(d, limit, ok)]
     ELSE [statement |-> "match", value |-> SQLite_match(d, cleanQuery, limit, ok)]

RECURSIVE TextChars(_)
\* the characters of a string given as its lines
TextChars(lines) ==
  IF lines = <<>> THEN <<>>
  ELSE IF Len(lines) = 1 THEN Chars(lines[1])
  ELSE Chars(lines[1]) \o <<"\n">> \o TextChars(Tail(lines))

\* a recent list that puts the commands with a history entry first
Memory_getRecentCommandsUsedFirst(m, limit) ==
  LET used == {k \in DOMAIN m.commands :
                 \E h \in DOMAIN m.history :
                   m.history[h].commandId = m.commands[k].id}
  IN slice(filter(m.commands, used) \o filter(m.commands, DOMAIN m.commands \ used),
           limit)

\* return this.commands.slice(0, limit)
Memory_getRecentCommands(m, limit) == slice(m.commands, limit)

\* a scan of the names alone
MemoryMatchesNameOnly(cmd, query) ==
  includes(toLowerCase(Chars(cmd.name)), toLowerCase(Chars(query)))

\* name, summary, standsFor or one example holds the lower-cased query
MemoryMatches(cmd, query) ==
  LET lowerQuery == toLowerCase(Chars(query))
  IN \/ includes(toLowerCase(Chars(cmd.name)), lowerQuery)
     \/ cmd.summary # "" /\ includes(toLowerCase(Chars(cmd.summary)), lowerQuery)
     \/ cmd.standsFor # "" /\ includes(toLowerCase(Chars(cmd.standsFor)), lowerQuery)
     \/ \E k \in DOMAIN cmd.examples :
          includes(toLowerCase(TextChars(cmd.examples[k])), lowerQuery)

\* MemoryCommandStorage.searchCommands
Memory_searchCommands(m, query, limit) ==
  IF Blank(query) THEN Memory_getRecentCommands(m, limit)
  ELSE slice(filter(m.commands,
                    {k \in DOMAIN m.commands : MemoryMatches(m.commands[k].cmd, query)}),
             limit)

(***************************************************************************)
(* CommandService, the facade.  A public method runs to its first await,   *)
(* then one action per awaited call.                                       *)
(***************************************************************************)
\* typeof window !== 'undefined' && window.electron
isRenderer == role = "display"

Direct(method) == [via |-> "direct", method |-> method]
Ipc(method) == [via |-> "ipc", method |-> method]

\* the answer of a backend search, which the facade hands on unread
Unread == <<"<backend answer>">>

Called(t, op) ==
  /\ fpc[t] = "idle"
  /\ pc[t] = "idle"
  /\ ncalls < MaxCalls
  /\ ncalls' = ncalls + 1
  /\ fop' = [fop EXCEPT ![t] = op]
  /\ fres' = [fres EXCEPT ![t] = NoResult]
  /\ UNCHANGED <<storeVars, opsVars>>
  /\ UNCHANGED <<role, backend, initialized, useMemoryFallback, mem, initInfo,
                 calls>>

\* if (!this.initialized) await this.init()
ensureInitialized(t) ==
  fpc' = [fpc EXCEPT ![t] = IF initialized THEN "route" ELSE "init"]

CommandService_searchCommands(t, query, limit) ==
  /\ Called(t, [NoOp EXCEPT !.op = "search", !.query = query, !.limit = limit])
  /\ ensureInitialized(t)

CommandService_getCommandByName(t, name) ==
  /\ Called(t, [NoOp EXCEPT !.op = "lookup", !.name = name])
  /\ ensureInitialized(t)

\* saveCommand does not await ensureInitialized
CommandService_saveCommand(t, command, id) ==
  /\ Called(t, [NoOp EXCEPT !.op = "save", !.cmd = command, !.id = id])
  /\ fpc' = [fpc EXCEPT ![t] = "route"]

\* the engine DatabaseService got from the loader: the native binding, or the
\* mock created when the binding cannot be loaded
Engines == {"native", "mock"}

\* DatabaseService.run reads this.changes in its callback.  The native engine
\* calls it with the statement as receiver; the mock calls callback(null) with
\* no receiver, the read throws inside the promise executor and run rejects.
EngineRunResolves(engine) == engine = "native"

\* what storageService.initialize() can do: resolve true, resolve false
\* (an error caught inside DatabaseService.initialize), or reject (the
\* connection fails to open)
InitOutcomes ==
  IF backend = "memory" \/ dbState = "open" THEN {"ok"}
  ELSE IF ~EngineRunResolves(boot.engine) THEN {"reject"}
  ELSE {"ok", "false", "reject"}

\* DatabaseService.db after initialize()
Opened(outcome) ==
  CASE outcome = "ok" -> "open"
    [] outcome = "reject" -> "broken"
    [] OTHER -> dbState

\* a catch block that does not mark memory-fallback
InitThrewUnmarked(outcome) == FALSE

\* init() ends in its catch block exactly when initialize() rejected
InitThrew(outcome) == outcome = "reject"

\* if (success && !this.useMemoryFallback)
CountsCommands(outcome, fallback) == outcome = "ok" /\ ~fallback

\* the emptiness test inverted
ShouldImportWhenNonEmpty(count) == count > 0

\* if (count === 0) await this.importLegacyCommands()
ShouldImport(count) == count = 0

\* init(): in the display process nothing to do; in the host process
\* await this.storageService.initialize()
CommandService_init(t) ==
  /\ fpc[t] = "init"
  /\ IF isRenderer
     THEN /\ initialized' = TRUE
          /\ fpc' = [fpc EXCEPT ![t] = "route"]
          /\ UNCHANGED <<dbState, useMemoryFallback, initInfo, calls>>
     ELSE \E outcome \in InitOutcomes :
          LET counts == CountsCommands(outcome, useMemoryFallback) IN
          /\ dbState' = IF backend = "sqlite" THEN Opened(outcome) ELSE dbState
          /\ useMemoryFallback' = (useMemoryFallback \/ InitThrew(outcome))
          /\ initialized' = (initialized \/ ~counts)
          /\ fpc' = [fpc EXCEPT ![t] = IF counts THEN "count" ELSE "route"]
          /\ initInfo' = [initInfo EXCEPT !.outcome = outcome, !.done = ~counts]
          /\ calls' = calls \cup {Direct("initialize")}
  /\ UNCHANGED <<db, snap, inTxn, contentTypes, opsVars, pc, loc, last, ctx, faults,
                 saves>>
  /\ UNCHANGED <<role, backend, mem, fop, fres, ncalls>>

\* a count that does not look at result.success
CountCommandsUnchecked(d, ok) == Cardinality(d.commands)

\* DatabaseService.getCommandCount: result.success && result.data ? count : 0
CountCommands(d, ok) == IF ok THEN Cardinality(d.commands) ELSE 0

\* const count = await this.storageService.getCommandCount()
InitCount(t) ==
  /\ fpc[t] = "count"
  /\ \E fail \in (IF backend = "sqlite" THEN FailChoices ELSE {FALSE}) :
     LET count == IF backend = "sqlite" THEN CountCommands(db, StmtOk(fail))
                  ELSE Memory_getCommandCount(mem)
         import == ShouldImport(count) /\ commandData # <<>> IN
     /\ Charge(fail)
     /\ fop' = [fop EXCEPT ![t].queue = IF import THEN commandData ELSE <<>>]
     /\ fpc' = [fpc EXCEPT ![t] = IF import THEN "import" ELSE "route"]
     /\ initialized' = (initialized \/ ~import)
     /\ initInfo' = [initInfo EXCEPT !.counted = TRUE, !.count = count,
                                     !.done = ~import, !.countAfter = count]
  /\ calls' = calls \cup {Direct("getCommandCount")}
  /\ UNCHANGED <<db, snap, inTxn, dbState, contentTypes, opsVars, pc, loc, last, ctx,
                 saves>>
  /\ UNCHANGED <<role, backend, useMemoryFallback, mem, fres, ncalls>>

\* importLegacyCommands: await this.storageService.saveCommand(
\* adaptLegacyCommand(cmd)) for the next record of the seed list
ImportLegacy(t) ==
  /\ fpc[t] = "import"
  /\ pc[t] = "idle"
  /\ fop[t].queue # <<>>
  /\ LET c == adaptLegacyCommand(Head(fop[t].queue)) IN
     /\ IF backend = "sqlite"
        THEN saveCommand(t, c) /\ UNCHANGED mem
        ELSE /\ mem' = Memory_saveCommand(mem, c, NoId)
             /\ UNCHANGED <<db, snap, inTxn, dbState, contentTypes, opsVars, pc, loc,
                            last, ctx, faults>>
     /\ initInfo' = [initInfo EXCEPT !.imported = Append(@, c)]
  /\ fop' = [fop EXCEPT ![t].queue = Tail(@)]
  /\ calls' = calls \cup {Direct("saveCommand")}
  /\ UNCHANGED <<saves, role, backend, initialized, useMemoryFallback, fpc,
                 fres, ncalls>>

\* the import loop is over: this.initialized = true; return success
InitDone(t) ==
  /\ fpc[t] = "import"
  /\ pc[t] = "idle"
  /\ fop[t].queue = <<>>
  /\ initialized' = TRUE
  /\ fpc' = [fpc EXCEPT ![t] = "route"]
  /\ initInfo' = [initInfo EXCEPT !.done = TRUE,
        !.countAfter = IF backend = "sqlite" THEN CountCommands(db, dbState = "open")
                       ELSE Memory_getCommandCount(mem)]
  /\ UNCHANGED <<storeVars, opsVars>>
  /\ UNCHANGED <<role, backend, useMemoryFallback, mem, fop, fres, calls, ncalls>>

\* searchCommands: who answers.  "recent" is the facade's own
\* getRecentCommands, "local" its memorySearchCommands, "remote" the bridge,
\* "storage" the storage service in this process
SearchRoute(blank, renderer, fallback) ==
  IF blank THEN "recent"
  ELSE IF renderer THEN "remote"
  ELSE IF ~fallback THEN "storage"
  ELSE "local"

\* a lookup that does not test for the display process
LookupRouteHostOnly(renderer, fallback) ==
  IF ~fallback THEN "storage" ELSE "local"

\* getCommandByName: who answers
LookupRoute(renderer, fallback) ==
  IF renderer THEN "remote"
  ELSE IF ~fallback THEN "storage"
  ELSE "local"

\* a save that does not test the memory-fallback mark
SaveRouteIgnoringFallback(renderer, fallback) ==
  IF renderer THEN "remote" ELSE "storage"

\* saveCommand: "none" only logs a message and reports success
SaveRoute(renderer, fallback) ==
  IF fallback THEN "none"
  ELSE IF renderer THEN "remote"
  ELSE "storage"

\* a facade without the try/catch around its remote calls
SettledUncaught(route, raised) == IF raised THEN "threw" ELSE "returned"

\* how a facade call ends when the call it awaited raised: the remote calls
\* sit in try/catch, the storage-service calls are returned as they are
Settled(route, raised) ==
  IF raised /\ route # "remote" THEN "threw" ELSE "returned"

\* the storage adapters catch inside and never reject; the bridge can
Raised(route, bridgeOk) == route = "remote" /\ ~bridgeOk

Answered(t, route, bridgeOk, value, ret) ==
  fres' = [fres EXCEPT ![t] =
     [valid |-> TRUE, op |-> fop[t].op, query |-> fop[t].query,
      limit |-> fop[t].limit, name |-> fop[t].name, cmd |-> fop[t].cmd,
      route |-> route, bridgeOk |-> bridgeOk, fallback |-> useMemoryFallback,
      value |-> value, ret |-> ret,
      settled |-> Settled(route, Raised(route, bridgeOk))]]

Return(t) ==
  /\ fpc' = [fpc EXCEPT ![t] = "idle"]
  /\ fop' = [fop EXCEPT ![t] = NoOp]

\* the storage service of the host process answers searchCommands
Storage_searchCommands(query, limit, ok) ==
  IF backend = "memory"
  THEN LET hits == Memory_searchCommands(mem, query, limit)
       IN [k \in DOMAIN hits |-> hits[k].cmd]
  ELSE SQLite_searchCommands(db, query, limit, ok).value

\* the key Object.keys gives the element at position k of an array
IndexKey(k) == CASE k = 1 -> "0" [] k = 2 -> "1" [] k = 3 -> "2"

\* Object.keys(array): the indices of the elements, as strings
ObjectKeys(array) == [k \in DOMAIN array |-> IndexKey(k)]

\* getCommandNames: return Object.keys(commandData); synchronous, no
\* ensureInitialized
CommandService_getCommandNames(t) ==
  /\ fpc[t] = "idle"
  /\ pc[t] = "idle"
  /\ ncalls < MaxCalls
  /\ ncalls' = ncalls + 1
  /\ ores' = [NoOres EXCEPT !.store = "facade", !.op = "names",
                            !.value = ObjectKeys(commandData)]
  /\ UNCHANGED <<storeVars, now, apiCache, boot, written>>
  /\ UNCHANGED <<role, backend, initialized, useMemoryFallback, mem, fpc, fop,
                 fres, initInfo, calls>>

\* searchCommands after ensureInitialized
ServeSearch(t) ==
  /\ fpc[t] = "route"
  /\ fop[t].op = "search"
  /\ LET q == fop[t].query
         limit == fop[t].limit
         route == SearchRoute(Blank(q), isRenderer, useMemoryFallback) IN
     \E bridgeOk \in (IF route = "remote" THEN BOOLEAN ELSE {TRUE}) :
     \E fail \in (IF route \in {"remote", "storage"} /\ bridgeOk
                     /\ backend = "sqlite"
                  THEN FailChoices ELSE {FALSE}) :
       /\ Charge(fail)
       /\ Answered(t, route, bridgeOk,
            CASE route = "recent" -> memorySearchCommands("", limit)
              [] route = "local" -> memorySearchCommands(q, limit)
              [] route = "remote" /\ ~bridgeOk -> memorySearchCommands(q, limit)
              [] OTHER -> Storage_searchCommands(q, limit, StmtOk(fail)),
            Bool(TRUE))
       /\ calls' = calls \cup
            CASE route = "remote" -> {Ipc("searchCommands")}
              [] route = "storage" -> {Direct("searchCommands")}
              [] OTHER -> {}
  /\ Return(t)
  /\ UNCHANGED <<db, snap, inTxn, dbState, contentTypes, opsVars, pc, loc, last, ctx,
                 saves>>
  /\ UNCHANGED <<role, backend, initialized, useMemoryFallback, mem, initInfo,
                 ncalls>>

\* the storage service of the host process answers getCommandByName
Storage_getCommandByName(name, ok) ==
  IF backend = "memory" THEN Memory_getCommandByName(mem, name)
  ELSE LET r == getCommandByName(db, name, ok)
       IN IF r.found THEN <<r>> ELSE <<>>

\* getCommandByName after ensureInitialized
ServeLookup(t) ==
  /\ fpc[t] = "route"
  /\ fop[t].op = "lookup"
  /\ LET name == fop[t].name
         route == LookupRoute(isRenderer, useMemoryFallback) IN
     \E bridgeOk \in (IF route = "remote" THEN BOOLEAN ELSE {TRUE}) :
     \E fail \in (IF route # "local" /\ bridgeOk /\ backend = "sqlite"
                  THEN FailChoices ELSE {FALSE}) :
       /\ Charge(fail)
       /\ Answered(t, route, bridgeOk,
            IF route = "local" \/ ~bridgeOk THEN memoryGetCommandByName(name)
            ELSE Storage_getCommandByName(name, StmtOk(fail)),
            Bool(TRUE))
       /\ calls' = calls \cup
            CASE route = "remote" -> {Ipc("getCommandByName")}
              [] route = "storage" -> {Direct("getCommandByName")}
              [] OTHER -> {}
  /\ Return(t)
  /\ UNCHANGED <<db, snap, inTxn, dbState, contentTypes, opsVars, pc, loc, last, ctx,
                 saves>>
  /\ UNCHANGED <<role, backend, initialized, useMemoryFallback, mem, initInfo,
                 ncalls>>

\* saveCommand in memory-fallback mode: console.log; return true
FallbackSave(t) ==
  /\ fpc[t] = "route"
  /\ fop[t].op = "save"
  /\ SaveRoute(isRenderer, useMemoryFallback) = "none"
  /\ Answered(t, "none", TRUE, <<>>, Bool(TRUE))
  /\ Return(t)
  /\ UNCHANGED <<storeVars, opsVars>>
  /\ UNCHANGED <<role, backend, initialized, useMemoryFallback, mem, initInfo,
                 calls, ncalls>>

\* saveCommand in the display process:
\* window.electron.database.logCommandUsage(commandId, command.name),
\* which the host's db:log-command-usage handler passes to its storage
\* service; a bridge error is caught and false returned
RemoteSave(t) ==
  /\ fpc[t] = "route"
  /\ fop[t].op = "save"
  /\ SaveRoute(isRenderer, useMemoryFallback) = "remote"
  /\ \E bridgeOk \in BOOLEAN :
     \E fail \in (IF bridgeOk /\ backend = "sqlite" THEN FailChoices ELSE {FALSE}) :
       LET commandId == fop[t].id
           rawInput == fop[t].cmd.name
           ok == StmtOk(fail) /\ commandId \in Ids(db.commands) IN
       /\ Charge(fail)
       /\ db' = IF bridgeOk /\ backend = "sqlite" /\ ok
                THEN [db EXCEPT !.history = Append(@,
                        [command_id |-> commandId, raw_input |-> rawInput,
                         timestamp |-> now])]
                ELSE db
       /\ mem' = IF bridgeOk /\ backend = "memory"
                 THEN Memory_logCommandUsage(mem, commandId, rawInput)
                 ELSE mem
       /\ Answered(t, "remote", bridgeOk, <<>>,
                   Bool(bridgeOk /\ (backend = "memory" \/ ok)))
  /\ calls' = calls \cup {Ipc("logCommandUsage")}
  /\ Return(t)
  /\ UNCHANGED <<snap, inTxn, dbState, contentTypes, opsVars, pc, loc, last, ctx, saves>>
  /\ UNCHANGED <<role, backend, initialized, useMemoryFallback, initInfo, ncalls>>

\* saveCommand in the host process: return this.storageService.saveCommand(command)
StorageSave(t) ==
  /\ fpc[t] = "route"
  /\ fop[t].op = "save"
  /\ SaveRoute(isRenderer, useMemoryFallback) = "storage"
  /\ IF backend = "sqlite"
     THEN /\ saveCommand(t, fop[t].cmd)
          /\ fpc' = [fpc EXCEPT ![t] = "saving"]
          /\ UNCHANGED <<mem, fop, fres>>
     ELSE /\ mem' = Memory_saveCommand(mem, fop[t].cmd, fop[t].id)
          /\ Answered(t, "storage", TRUE, <<>>, Bool(TRUE))
          /\ Return(t)
          /\ UNCHANGED <<db, snap, inTxn, dbState, contentTypes, opsVars, pc, loc, last,
                         ctx, faults>>
  /\ calls' = calls \cup {Direct("saveCommand")}
  /\ UNCHANGED <<saves, role, backend, initialized, useMemoryFallback, initInfo,
                 ncalls>>

\* the storage service's saveCommand has returned to the facade's caller
SaveReturn(t) ==
  /\ fpc[t] = "saving"
  /\ pc[t] = "idle"
  /\ Answered(t, "storage", TRUE, <<>>, last[t].ret)
  /\ Return(t)
  /\ UNCHANGED <<storeVars, opsVars>>
  /\ UNCHANGED <<role, backend, initialized, useMemoryFallback, mem, initInfo,
                 calls, ncalls>>

(***************************************************************************)
(* One caller using the facade, in the host or in the display process.     *)
(***************************************************************************)
Queries == {"", " ", "s", "LS"}
Limits == {1, DefaultLimit}
LookupNames == {"ls", "cd", "git"}
FacadeCommands == {c \in Commands : c.summary = "s1"}
CommandIds == {NoId, 1}

\* a store file that already holds a command
SeededDb ==
  [EmptyDb EXCEPT
     !.categories = {[id |-> 1, name |-> "files"]},
     !.commands = {[id |-> 1, name |-> "ls", summary |-> "s0",
                    stands_for |-> Null, category_id |-> 1]},
     !.examples = {[id |-> 1, command_id |-> 1, example |-> E2,
                    sort_order |-> 0]}]

InitFacade ==
  /\ role \in {"host", "display"}
  /\ backend \in {"sqlite", "memory"}
  /\ db \in (IF backend = "sqlite" THEN {EmptyDb, SeededDb} ELSE {EmptyDb})
  /\ snap = db
  /\ inTxn = FALSE
  /\ dbState \in (IF role = "display" /\ backend = "sqlite" THEN {"null", "open"}
                  ELSE {"null"})
  /\ contentTypes \in (IF backend = "sqlite" THEN {{}, {"tldr"}} ELSE {{}})
  /\ pc = [t \in Tasks |-> "idle"]
  /\ loc = [t \in Tasks |-> NoLoc]
  /\ last = [t \in Tasks |-> NoCall]
  /\ ctx = [t \in Tasks |-> NoCtx]
  /\ faults = 0
  /\ saves = 0
  /\ initialized = FALSE
  /\ useMemoryFallback = FALSE
  /\ mem = EmptyMem
  /\ fpc = [t \in Tasks |-> "idle"]
  /\ fop = [t \in Tasks |-> NoOp]
  /\ fres = [t \in Tasks |-> NoResult]
  /\ initInfo = NoInit
  /\ calls = {}
  /\ ncalls = 0
  /\ boot \in {[NoBoot EXCEPT !.engine = e] :
                 e \in (IF role = "host" /\ backend = "sqlite" THEN Engines
                        ELSE {"native"})}
  /\ now = 1
  /\ apiCache = {}
  /\ ores = NoOres
  /\ written = [k \in CacheKeys |-> NoEntry]

NextFacade ==
  \/ \E q \in Queries, limit \in Limits : CommandService_searchCommands(1, q, limit)
  \/ \E name \in LookupNames : CommandService_getCommandByName(1, name)
  \/ \E c \in FacadeCommands, id \in CommandIds : CommandService_saveCommand(1, c, id)
  \/ CommandService_getCommandNames(1)
  \/ CommandService_init(1)
  \/ InitCount(1)
  \/ ImportLegacy(1)
  \/ InitDone(1)
  \/ ServeSearch(1)
  \/ ServeLookup(1)
  \/ FallbackSave(1)
  \/ RemoteSave(1)
  \/ StorageSave(1)
  \/ SaveReturn(1)
  \/ SaveStep(1)

SpecFacade == InitFacade /\ [][NextFacade]_vars

(***************************************************************************)
(* The single-statement operations of SQLiteCommandStorage and the same    *)
(* operations of MemoryCommandStorage.                                     *)
(***************************************************************************)
\* what an operation hands back, kept until the next operation
Result(store, op, query, limit, name, ok, statement, value) ==
  [store |-> store, op |-> op, query |-> query, limit |-> limit,
   name |-> name, ok |-> ok, statement |-> statement, value |-> value,
   at |-> now, pre |-> [db |-> db, cache |-> apiCache, mem |-> mem]]

OpsFrame == UNCHANGED <<db, snap, inTxn, dbState, contentTypes, pc, loc, last,
                        ctx, saves, facadeVars, now, apiCache, boot, written>>

searchCommands(store, query, limit) ==
  \E fail \in (IF store = "sqlite" THEN FailChoices ELSE {FALSE}) :
    LET ok == store = "memory" \/ StmtOk(fail)
        r == SQLite_searchCommands(db, query, limit, ok)
    IN /\ Charge(fail)
       /\ ores' = IF store = "sqlite"
                  THEN Result(store, "search", query, limit, "", ok,
                              r.statement, r.value)
                  ELSE Result(store, "search", query, limit, "", ok, "none",
                              Memory_searchCommands(mem, query, limit))
       /\ OpsFrame

getRecentCommands(store, limit) ==
  \E fail \in (IF store = "sqlite" THEN FailChoices ELSE {FALSE}) :
    LET ok == store = "memory" \/ StmtOk(fail)
    IN /\ Charge(fail)
       /\ ores' = IF store = "sqlite"
                  THEN Result(store, "recent", "", limit, "", ok, "recent",
                              SQLite_getRecentCommands(db, limit, ok))
                  ELSE Result(store, "recent", "", limit, "", ok, "none",
                              Memory_getRecentCommands(mem, limit))
       /\ OpsFrame


\* INSERT INTO command_history (command_id, raw_input); the timestamp column
\* defaults to CURRENT_TIMESTAMP and command_id references commands(id)
logCommandUsage(store, commandId, rawInput) ==
  \E fail \in (IF store = "sqlite" THEN FailChoices ELSE {FALSE}) :
    LET ok == \/ store = "memory"
              \/ StmtOk(fail) /\ commandId \in Ids(db.commands)
    IN /\ Charge(fail)
       /\ IF store = "sqlite"
          THEN /\ Len(db.history) < MaxLog
               /\ db' = IF ok
                        THEN [db EXCEPT !.history = Append(@,
                                [command_id |-> commandId, raw_input |-> rawInput,
                                 timestamp |-> now])]
                        ELSE db
               /\ snap' = db'
               /\ mem' = mem
          ELSE /\ Len(mem.history) < MaxLog
               /\ mem' = Memory_logCommandUsage(mem, commandId, rawInput)
               /\ UNCHANGED <<db, snap>>
       /\ ores' = Result(store, "log", "", 0, rawInput, ok, "insert", Bool(ok))
       /\ UNCHANGED <<inTxn, dbState, contentTypes, pc, loc, last, ctx, saves,
                      role, backend, initialized, useMemoryFallback, fpc, fop,
                      fres, initInfo, calls, ncalls, now, apiCache, boot,
                      written>>

\* a referential action that removes the referencing commands
OnDeleteCascade(commands, categoryId) ==
  {c \in commands : c.category_id # categoryId}

\* FOREIGN KEY (category_id) REFERENCES categories(id) ON DELETE SET NULL,
\* enforced under PRAGMA foreign_keys = ON
OnDeleteSetNull(commands, categoryId) ==
  {IF c.category_id = categoryId THEN [c EXCEPT !.category_id = NoId] ELSE c :
     c \in commands}

\* DELETE FROM categories WHERE id = ? through DatabaseService.run
deleteCategory(categoryId) ==
  /\ backend = "sqlite"
  /\ \E fail \in FailChoices :
       LET ok == StmtOk(fail) IN
       /\ Charge(fail)
       /\ db' = IF ok
                THEN [db EXCEPT
                        !.categories = {g \in @ : g.id # categoryId},
                        !.commands = OnDeleteSetNull(@, categoryId)]
                ELSE db
       /\ snap' = db'
       /\ ores' = Result("sqlite", "deleteCategory", "", categoryId, "", ok,
                         "delete", Bool(ok))
       /\ UNCHANGED <<inTxn, dbState, contentTypes, pc, loc, last, ctx, saves,
                      facadeVars, now, apiCache, boot, written>>

\* SQLiteCommandStorage.getCommandByName as one call
GetCommandByName(name) ==
  /\ backend = "sqlite"
  /\ \E fail \in FailChoices :
       LET ok == StmtOk(fail) IN
       /\ Charge(fail)
       /\ ores' = Result("sqlite", "lookup", "", 0, name, ok, "select",
                         getCommandByName(db, name, ok))
       /\ OpsFrame

\* SELECT content FROM command_content WHERE command_id = ? AND
\* content_type_id = (SELECT id FROM content_types WHERE name = ?)
SQLite_getCommandContent(d, commandId, contentType, ok) ==
  LET rows == {b \in d.contents : /\ b.command_id = commandId
                                  /\ b.type = contentType
                                  /\ contentType \in contentTypes}
  IN IF ok /\ rows # {} THEN (CHOOSE b \in rows : TRUE).content ELSE Null

GetCommandContent(commandId, contentType) ==
  /\ backend = "sqlite"
  /\ \E fail \in FailChoices :
       LET ok == StmtOk(fail) IN
       /\ Charge(fail)
       /\ ores' = Result("sqlite", "content", contentType, commandId, "", ok,
                         "select",
                         SQLite_getCommandContent(db, commandId, contentType, ok))
       /\ OpsFrame

\* the content-type SELECT, then INSERT OR REPLACE INTO command_content;
\* command_id references commands(id)
SaveCommandContent(commandId, content, contentType) ==
  /\ backend = "sqlite"
  /\ \E fail \in FailChoices, failing \in {"select", "insert"} :
       LET lookupOk == StmtOk(fail /\ failing = "select")
           typeFound == contentType \in contentTypes
           insertOk == /\ StmtOk(fail /\ failing = "insert")
                       /\ commandId \in Ids(db.commands)
           stored == lookupOk /\ typeFound /\ insertOk
       IN
       /\ Charge(fail)
       /\ db' = IF stored THEN UpsertContent(db, commandId, contentType, content)
                ELSE db
       /\ snap' = db'
       /\ ores' = Result("sqlite", "saveContent", contentType, commandId, content,
                         lookupOk /\ (typeFound => insertOk),
                         IF lookupOk /\ typeFound THEN "insert" ELSE "select",
                         Bool(stored))
       /\ UNCHANGED <<inTxn, dbState, contentTypes, pc, loc, last, ctx, saves,
                      facadeVars, now, apiCache, boot, written>>

\* return await databaseService.getCommandCount()
GetCommandCount ==
  /\ backend = "sqlite"
  /\ \E fail \in FailChoices :
       LET ok == StmtOk(fail) IN
       /\ Charge(fail)
       /\ ores' = Result("sqlite", "count", "", 0, "", ok, "select",
                         CountCommands(db, ok))
       /\ OpsFrame

\* a second passes
Tick ==
  /\ now < MaxNow
  /\ now' = now + 1
  /\ UNCHANGED <<storeVars, facadeVars, apiCache, ores, boot, written>>

(***************************************************************************)
(* One caller of the single-statement operations, on either store.         *)
(***************************************************************************)
Stores == {"sqlite", "memory"}
OpsQueries == {"", " ", "s", "l@s", "@#"}
OpsLimits == {0, 1, DefaultLimit}
CategoryIds == {1, 2}
OpsContents == {"c1", "c2"}

\* two commands, one with a category, examples and a content body
TwoCommandsDb ==
  [SeededDb EXCEPT
     !.commands = @ \cup {[id |-> 2, name |-> "cd", summary |-> "s2",
                           stands_for |-> "list", category_id |-> NoId]},
     !.contents = {[command_id |-> 1, type |-> "tldr", content |-> "c1"]}]

OpsDbs == {EmptyDb, SeededDb, TwoCommandsDb}

\* what MemoryCommandStorage holds after saving zero, one or two commands
OpsMems ==
  {EmptyMem} \cup
  {Memory_saveCommand(EmptyMem, c, NoId) : c \in {x \in FacadeCommands : x.name = "ls"}} \cup
  {Memory_saveCommand(Memory_saveCommand(EmptyMem, c1, NoId), c2, NoId) :
     c1 \in {c \in FacadeCommands : c.name = "cd"},
     c2 \in {c \in FacadeCommands : c.name = "ls" /\ c.examples = <<E3>>}}

\* the store StorageService.getInstance hands out is the one in use
InitOps ==
  /\ role = "host"
  /\ backend \in Stores
  /\ db \in (IF backend = "sqlite" THEN OpsDbs ELSE {EmptyDb})
  /\ snap = db
  /\ inTxn = FALSE
  /\ dbState \in (IF backend = "sqlite" THEN {"open", "null"} ELSE {"null"})
  /\ contentTypes \in (IF backend = "sqlite" THEN {{}, {"tldr"}} ELSE {{}})
  /\ pc = [t \in Tasks |-> "idle"]
  /\ loc = [t \in Tasks |-> NoLoc]
  /\ last = [t \in Tasks |-> NoCall]
  /\ ctx = [t \in Tasks |-> NoCtx]
  /\ faults = 0
  /\ saves = 0
  /\ initialized = FALSE
  /\ useMemoryFallback = FALSE
  /\ mem \in (IF backend = "memory" THEN OpsMems ELSE {EmptyMem})
  /\ fpc = [t \in Tasks |-> "idle"]
  /\ fop = [t \in Tasks |-> NoOp]
  /\ fres = [t \in Tasks |-> NoResult]
  /\ initInfo = NoInit
  /\ calls = {}
  /\ ncalls = 0
  /\ OpsUnused

NextOps ==
  \/ \E q \in OpsQueries, l \in OpsLimits : searchCommands(backend, q, l)
  \/ \E l \in OpsLimits : getRecentCommands(backend, l)
  \/ \E id \in CommandIds \cup {2} : logCommandUsage(backend, id, "ls")
  \/ \E id \in CategoryIds : deleteCategory(id)
  \/ \E n \in LookupNames : GetCommandByName(n)
  \/ \E id \in CommandIds : GetCommandContent(id, "tldr")
  \/ \E id \in CommandIds, c \in OpsContents : SaveCommandContent(id, c, "tldr")
  \/ GetCommandCount
  \/ Tick

SpecOps == InitOps /\ [][NextOps]_vars

(***************************************************************************)
(* The searches of the three backends side by side: the durable adapter,   *)
(* the in-memory store and the facade's scan of the seed list.             *)
(***************************************************************************)
\* CommandService.memorySearchCommands(query, limit)
LocalSearch(query, limit) ==
  /\ ores' = Result("facade", "search", query, limit, "", TRUE, "none",
                    memorySearchCommands(query, limit))
  /\ OpsFrame /\ UNCHANGED faults

\* CommandService.getRecentCommands(limit): this.memorySearchCommands('', limit)
LocalRecent(limit) ==
  /\ ores' = Result("facade", "recent", "", limit, "", TRUE, "none",
                    memorySearchCommands("", limit))
  /\ OpsFrame /\ UNCHANGED faults

SearchQueries == {"", " ", "s", "ls", "LS", "@#"}
SearchLimits == {0, 1, 2, DefaultLimit}

NextSearch ==
  \/ \E q \in SearchQueries, l \in SearchLimits : searchCommands(backend, q, l)
  \/ \E l \in SearchLimits : getRecentCommands(backend, l)
  \/ \E q \in SearchQueries, l \in SearchLimits : LocalSearch(q, l)
  \/ \E l \in SearchLimits : LocalRecent(l)

SpecSearch == InitOps /\ [][NextSearch]_vars

(***************************************************************************)
(* The TTL cache of DatabaseService: the api_cache table.                  *)
(***************************************************************************)
\* datetime("now", "+N seconds") is NULL for a modifier SQLite cannot parse,
\* and expires_at is NOT NULL
ModifierParses(ttlSeconds) == ttlSeconds >= 0

\* a reader that never looks at the expiry
VisibleAlways(row, t) == TRUE

\* expires_at > datetime("now")
Visible(row, t) == row.expires_at > t

\* a sweep that also takes the rows expiring this second
ExpiredOrDue(row, t) == row.expires_at <= t

\* expires_at < datetime("now")
Expired(row, t) == row.expires_at < t

\* SELECT cache_key as key, content, ..., expires_at as expiresAt
CacheItem(row) ==
  <<[key |-> row.cache_key, content |-> row.content, expiresAt |-> row.expires_at]>>

CacheFrame == UNCHANGED <<db, snap, inTxn, dbState, contentTypes, pc, loc, last,
                          ctx, saves, facadeVars, now, boot>>

\* INSERT OR REPLACE INTO api_cache ...: cache_key is UNIQUE
addToCache(key, content, ttlSeconds) ==
  \E fail \in FailChoices :
    LET ok == StmtOk(fail) /\ ModifierParses(ttlSeconds)
        row == [cache_key |-> key, content |-> content,
                expires_at |-> now + ttlSeconds]
    IN /\ Charge(fail)
       /\ apiCache' = IF ok THEN {r \in apiCache : r.cache_key # key} \cup {row}
                      ELSE apiCache
       /\ written' = IF ok
                     THEN [written EXCEPT ![key] =
                             [stored |-> TRUE, content |-> content,
                              expires_at |-> now + ttlSeconds]]
                     ELSE written
       /\ ores' = Result("sqlite", "addToCache", "", ttlSeconds, key, ok,
                         "insert", Bool(ok))
       /\ CacheFrame

\* return (result.success && result.data) ? result.data : null; <<>> is null
getFromCache(key) ==
  \E fail \in FailChoices :
    LET ok == StmtOk(fail)
        rows == {r \in apiCache : r.cache_key = key /\ Visible(r, now)}
    IN /\ Charge(fail)
       /\ ores' = Result("sqlite", "getFromCache", "", 0, key, ok, "select",
                         IF ok /\ rows # {} THEN CacheItem(CHOOSE r \in rows : TRUE)
                         ELSE <<>>)
       /\ UNCHANGED <<apiCache, written>>
       /\ CacheFrame

\* return result.success ? result.data.changes : 0
clearExpiredCache ==
  \E fail \in FailChoices :
    LET ok == StmtOk(fail)
        gone == {r \in apiCache : Expired(r, now)}
    IN /\ Charge(fail)
       /\ apiCache' = IF ok THEN apiCache \ gone ELSE apiCache
       /\ ores' = Result("sqlite", "clearExpiredCache", "", 0, "", ok, "delete",
                         IF ok THEN Cardinality(gone) ELSE 0)
       /\ UNCHANGED written
       /\ CacheFrame

CacheContents == {"v1", "v2"}
TTLs == {-1, 0, 1}

InitCache ==
  /\ db = SeededDb
  /\ snap = db
  /\ inTxn = FALSE
  /\ dbState \in {"open", "null"}
  /\ contentTypes = {}
  /\ pc = [t \in Tasks |-> "idle"]
  /\ loc = [t \in Tasks |-> NoLoc]
  /\ last = [t \in Tasks |-> NoCall]
  /\ ctx = [t \in Tasks |-> NoCtx]
  /\ faults = 0
  /\ saves = 0
  /\ FacadeUnused
  /\ OpsUnused

NextCache ==
  \/ \E k \in CacheKeys, c \in CacheContents, ttl \in TTLs : addToCache(k, c, ttl)
  \/ \E k \in CacheKeys : getFromCache(k)
  \/ clearExpiredCache
  \/ Tick

SpecCache == InitCache /\ [][NextCache]_vars

(***************************************************************************)
(* DatabaseService.initialize, initSchema and close.                       *)
(***************************************************************************)
\* schema.sql split on ';': the pieces initSchema hands to run(), by kind.
\* The content-type seed is cut at 'TL;DR'; each CREATE TRIGGER is cut at the
\* ';' inside its body, leaving an incomplete statement and a lone END.
SchemaPieces ==
  <<"pragma", "pragma", "table", "table", "index", "table", "table",
    "seedContentTypes", "fragment", "table", "table", "index", "table",
    "trigger", "end", "trigger", "end", "trigger", "end", "trigger", "end",
    "trigger", "end", "table", "index", "table", "seedSettings", "view">>

\* the engine accepts the piece; END is COMMIT and needs an open transaction
Runs(kind) ==
  /\ kind \notin {"seedContentTypes", "fragment", "trigger"}
  /\ kind = "end" => inTxn

\* INSERT OR IGNORE INTO app_settings (key, value) VALUES ...
SeedSettings ==
  {[key |-> "db_version", value |-> "1.0"],
   [key |-> "cache_ttl_seconds", value |-> "86400"],
   [key |-> "theme", value |-> "dark"]}

\* INSERT OR IGNORE on a table keyed by key: rows whose key is taken are skipped
InsertOrIgnore(rows, seeds) ==
  rows \cup {r \in seeds : \A x \in rows : x.key # r.key}

NoFault == [step |-> "none", k |-> 0]

\* what may go wrong in one call: a synchronous throw, the copy, the open, a
\* PRAGMA, reading schema.sql, or one schema statement the engine would accept
BootFaultChoices ==
  IF faults < MaxFaults
  THEN {NoFault} \cup
       {[step |-> st, k |-> 0] :
          st \in {"mkdir", "copy", "open", "fkPragma", "walPragma", "read"}} \cup
       {[step |-> "piece", k |-> k] :
          k \in {j \in DOMAIN SchemaPieces : Runs(SchemaPieces[j])}}
  ELSE {NoFault}

\* a guard that never takes the early return
AlreadyInitializedNever(flag, state) == FALSE

\* if (this.initialized && this.db) return true
AlreadyInitialized(flag, state) == flag /\ state # "null"

\* !fs.existsSync(this.dbPath) && fs.existsSync(this.prePopulatedDbPath)
ShouldCopy(fileExists, asset) == ~fileExists /\ asset

BootFrame == UNCHANGED <<snap, inTxn, pc, loc, last, ctx, saves, facadeVars,
                         now, apiCache, written>>

BootResult(value) ==
  Result("sqlite", "initialize", "", 0, "", value = "true", "none", value)

initialize ==
  /\ boot.boots < MaxBoots
  /\ \E fault \in BootFaultChoices :
     LET pre == [initialized |-> boot.initialized, dbState |-> dbState,
                 connections |-> boot.connections,
                 fileExists |-> boot.fileExists, db |-> db,
                 contentTypes |-> contentTypes, settings |-> boot.settings]
         copied == ShouldCopy(boot.fileExists, boot.asset) /\ fault.step # "copy"
         failedPieces ==
           {k \in DOMAIN SchemaPieces : ~Runs(SchemaPieces[k])} \cup
           (IF fault.step = "piece" THEN {fault.k} ELSE {})
         seeded(kind) ==
           \E k \in DOMAIN SchemaPieces :
             SchemaPieces[k] = kind /\ k \notin failedPieces
     IN
     IF AlreadyInitialized(boot.initialized, dbState)
     THEN /\ fault = NoFault
          /\ boot' = [boot EXCEPT !.pre = pre, !.failed = NoneFailed,
                                  !.boots = @ + 1]
          /\ ores' = BootResult("true")
          /\ UNCHANGED <<db, dbState, contentTypes, faults>>
     ELSE
       /\ faults' = IF fault = NoFault THEN faults ELSE faults + 1
       /\ CASE fault.step = "mkdir" ->
                 \* the outer catch: return false
                 /\ boot' = [boot EXCEPT !.pre = pre, !.failed = [steps |-> {"mkdir"}, pieces |-> {}],
                                         !.boots = @ + 1]
                 /\ ores' = BootResult("false")
                 /\ UNCHANGED <<db, dbState, contentTypes>>
            [] fault.step = "open" ->
                 \* reject(err); this.db holds the handle that failed to open
                 /\ boot' = [boot EXCEPT !.pre = pre, !.failed = [steps |-> {"open"}, pieces |-> {}],
                                         !.boots = @ + 1,
                                         !.connections = @ + 1,
                                         !.handle = boot.connections + 1,
                                         !.fileExists = @ \/ copied]
                 /\ db' = IF copied THEN SeededDb ELSE db
                 /\ dbState' = "broken"
                 /\ ores' = BootResult("reject")
                 /\ UNCHANGED contentTypes
            [] fault.step = "read" ->
                 \* initSchema rethrows; initialize rejects with the handle open
                 /\ boot' = [boot EXCEPT !.pre = pre, !.failed = [steps |-> {"read"}, pieces |-> {}],
                                         !.boots = @ + 1,
                                         !.connections = @ + 1,
                                         !.handle = boot.connections + 1,
                                         !.fileExists = TRUE]
                 /\ db' = IF copied THEN SeededDb ELSE db
                 /\ dbState' = "open"
                 /\ ores' = BootResult("reject")
                 /\ UNCHANGED contentTypes
            [] OTHER ->
                 \* run() resolves also when its statement failed, so every
                 \* .then runs and initialize resolves true
                 /\ boot' = [boot EXCEPT
                      !.pre = pre,
                      !.failed =
                        [steps |-> IF fault.step \in {"copy", "fkPragma", "walPragma"}
                                   THEN {fault.step} ELSE {},
                         pieces |-> failedPieces],
                      !.boots = @ + 1,
                      !.connections = @ + 1,
                      !.handle = boot.connections + 1,
                      !.schemaRuns = Append(@, boot.connections + 1),
                      !.fileExists = TRUE,
                      !.initialized = TRUE,
                      !.settings = IF seeded("seedSettings")
                                   THEN InsertOrIgnore(@, SeedSettings) ELSE @]
                 /\ db' = IF copied THEN SeededDb ELSE db
                 /\ dbState' = "open"
                 /\ contentTypes' = IF seeded("seedContentTypes")
                                    THEN contentTypes \cup {"tldr"}
                                    ELSE contentTypes
                 /\ ores' = BootResult("true")
  /\ BootFrame

\* this.db.close(cb): on success db = null and initialized = false
close ==
  /\ dbState # "null"
  /\ \E fail \in FailChoices :
       LET ok == dbState = "open" /\ ~fail IN
       /\ Charge(fail)
       /\ dbState' = IF ok THEN "null" ELSE dbState
       /\ boot' = [boot EXCEPT !.initialized = IF ok THEN FALSE ELSE @]
       /\ ores' = Result("sqlite", "close", "", 0, "", ok, "none", Bool(ok))
  /\ UNCHANGED <<db, contentTypes>>
  /\ BootFrame

\* the process ends and a new one constructs DatabaseService on the same file
Restart ==
  /\ dbState # "null"
  /\ dbState' = "null"
  /\ boot' = [boot EXCEPT !.initialized = FALSE]
  /\ UNCHANGED <<db, contentTypes, faults, ores>>
  /\ BootFrame

InitBoot ==
  /\ \E file \in BOOLEAN, asset \in BOOLEAN, set \in {{}, SeedSettings} :
       /\ boot = [NoBoot EXCEPT !.fileExists = file, !.asset = asset,
                                !.settings = IF file THEN set ELSE {}]
       /\ db \in (IF file THEN {EmptyDb, SeededDb} ELSE {EmptyDb})
  /\ snap = db
  /\ inTxn = FALSE
  /\ dbState = "null"
  /\ contentTypes = {}
  /\ pc = [t \in Tasks |-> "idle"]
  /\ loc = [t \in Tasks |-> NoLoc]
  /\ last = [t \in Tasks |-> NoCall]
  /\ ctx = [t \in Tasks |-> NoCtx]
  /\ faults = 0
  /\ saves = 0
  /\ FacadeUnused
  /\ now = 1
  /\ apiCache = {}
  /\ ores = NoOres
  /\ written = [k \in CacheKeys |-> NoEntry]

NextBoot == initialize \/ close \/ Restart

SpecBoot == InitBoot /\ [][NextBoot]_vars

(***************************************************************************)
(* Two initialize() calls in flight: the call returns a promise after      *)
(* creating the handle; the open callback, the two PRAGMAs and initSchema  *)
(* run later, each on whatever this.db is by then.                         *)
(***************************************************************************)
BootConcFrame == UNCHANGED <<snap, inTxn, loc, last, ctx, saves, facadeVars,
                             now, apiCache, written, faults>>

\* initialize() up to `return new Promise(...)`: the guard, the copy of the
\* pre-populated file, this.db = new verbose.Database(...)
InitializeCall(t) ==
  /\ pc[t] = "idle"
  /\ boot.boots < MaxBoots
  /\ IF AlreadyInitialized(boot.initialized, dbState)
     THEN /\ boot' = [boot EXCEPT !.boots = @ + 1]
          /\ ores' = BootResult("true")
          /\ UNCHANGED <<db, dbState, pc>>
     ELSE LET copied == ShouldCopy(boot.fileExists, boot.asset) IN
          /\ boot' = [boot EXCEPT !.boots = @ + 1,
                                  !.connections = @ + 1,
                                  !.handle = boot.connections + 1,
                                  !.opened[t] = boot.connections + 1,
                                  !.fileExists = TRUE]
          /\ db' = IF copied THEN SeededDb ELSE db
          /\ dbState' = "open"
          /\ pc' = [pc EXCEPT ![t] = "opened"]
          /\ UNCHANGED ores
  /\ UNCHANGED contentTypes
  /\ BootConcFrame

\* the open callback: this.run('PRAGMA foreign_keys = ON') and then
\* this.run('PRAGMA journal_mode = WAL'); run() resolves whatever happens
InitializePragmas(t) ==
  /\ pc[t] = "opened"
  /\ pc' = [pc EXCEPT ![t] = "schema"]
  /\ UNCHANGED <<db, dbState, contentTypes, boot, ores>>
  /\ BootConcFrame

\* this.initSchema().then(() => { this.initialized = true; resolve(true) })
InitializeSchema(t) ==
  /\ pc[t] = "schema"
  /\ LET failedPieces == {k \in DOMAIN SchemaPieces : ~Runs(SchemaPieces[k])}
         seeded(kind) ==
           /\ dbState = "open"
           /\ \E k \in DOMAIN SchemaPieces :
                SchemaPieces[k] = kind /\ k \notin failedPieces
     IN /\ boot' = [boot EXCEPT
                      !.schemaRuns = Append(@, IF dbState = "open" THEN boot.handle ELSE NoId),
                      !.initialized = TRUE,
                      !.opened[t] = NoId,
                      !.settings = IF seeded("seedSettings")
                                   THEN InsertOrIgnore(@, SeedSettings) ELSE @]
        /\ contentTypes' = IF seeded("seedContentTypes")
                           THEN contentTypes \cup {"tldr"}
                           ELSE contentTypes
        /\ ores' = Result("sqlite", "initialize", "", boot.opened[t], "", TRUE,
                          "none", "true")
  /\ pc' = [pc EXCEPT ![t] = "idle"]
  /\ UNCHANGED <<db, dbState>>
  /\ BootConcFrame

\* close() between the steps of the calls in flight
CloseConc ==
  /\ dbState = "open"
  /\ dbState' = "null"
  /\ boot' = [boot EXCEPT !.initialized = FALSE]
  /\ ores' = Result("sqlite", "close", "", 0, "", TRUE, "none", Bool(TRUE))
  /\ UNCHANGED <<db, contentTypes, pc>>
  /\ BootConcFrame

NextBootConc ==
  \/ \E t \in Tasks : InitializeCall(t) \/ InitializePragmas(t) \/ InitializeSchema(t)
  \/ CloseConc

SpecBootConc == InitBoot /\ [][NextBootConc]_vars

(***************************************************************************)
(* MemoryCommandStorage driven on its own: one caller, from the empty      *)
(* store of a fresh process.                                               *)
(***************************************************************************)
MaxMemSaves == 3

MemFrame == UNCHANGED <<db, snap, inTxn, dbState, contentTypes, pc, loc, last,
                        ctx, faults, facadeVars, now, apiCache, boot, written>>

\* MemoryCommandStorage.saveCommand of a command that carries the id ownId
MemSaveCommand(c, ownId) ==
  /\ backend = "memory"
  /\ saves < MaxMemSaves
  /\ saves' = saves + 1
  /\ mem' = Memory_saveCommand(mem, c, ownId)
  /\ ores' = Result("memory", "save", "", ownId, c.name, TRUE, "none", <<c>>)
  /\ UNCHANGED <<db, snap, inTxn, dbState, contentTypes, pc, loc, last, ctx,
                 faults, role, backend, initialized, useMemoryFallback, fpc,
                 fop, fres, initInfo, calls, ncalls, now, apiCache, boot,
                 written>>

\* MemoryCommandStorage.importCommands
MemImportCommands(cs) ==
  /\ backend = "memory"
  /\ saves + Len(cs) <= MaxMemSaves
  /\ saves' = saves + Len(cs)
  /\ mem' = Memory_importCommands(mem, cs)
  /\ ores' = Result("memory", "import", "", 0, "", TRUE, "none", ImportedCount(cs))
  /\ UNCHANGED <<db, snap, inTxn, dbState, contentTypes, pc, loc, last, ctx,
                 faults, role, backend, initialized, useMemoryFallback, fpc,
                 fop, fres, initInfo, calls, ncalls, now, apiCache, boot,
                 written>>

\* MemoryCommandStorage.getCommandByName
MemGetCommandByName(name) ==
  /\ backend = "memory"
  /\ ores' = Result("memory", "lookup", "", 0, name, TRUE, "none",
                    Memory_getCommandByName(mem, name))
  /\ saves' = saves
  /\ MemFrame /\ mem' = mem

\* contentStore.set(key, content) with key `${commandId}:${contentType}`
MapSet(store, commandId, contentType, content) ==
  {e \in store : ~(e.commandId = commandId /\ e.contentType = contentType)}
    \cup {[commandId |-> commandId, contentType |-> contentType,
           content |-> content]}

\* contentStore.get(key); Null stands for undefined
MapGet(store, commandId, contentType) ==
  LET es == {e \in store : e.commandId = commandId /\ e.contentType = contentType}
  IN IF es = {} THEN Null ELSE (CHOOSE e \in es : TRUE).content

\* value || null: the empty string is falsy
OrNull(value) == IF value = "" THEN Null ELSE value

\* return this.contentStore.get(key) || null
Memory_getCommandContent(m, commandId, contentType) ==
  OrNull(MapGet(m.contentStore, commandId, contentType))

\* MemoryCommandStorage.saveCommandContent
MemSaveCommandContent(commandId, content, contentType) ==
  /\ backend = "memory"
  /\ mem' = [mem EXCEPT !.contentStore = MapSet(@, commandId, contentType, content)]
  /\ ores' = Result("memory", "saveContent", contentType, commandId, content,
                    TRUE, "none", Bool(TRUE))
  /\ saves' = saves
  /\ UNCHANGED <<db, snap, inTxn, dbState, contentTypes, pc, loc, last, ctx,
                 faults, role, backend, initialized, useMemoryFallback, fpc,
                 fop, fres, initInfo, calls, ncalls, now, apiCache, boot,
                 written>>

\* MemoryCommandStorage.getCommandContent
MemGetCommandContent(commandId, contentType) ==
  /\ backend = "memory"
  /\ ores' = Result("memory", "content", contentType, commandId, "", TRUE,
                    "none", Memory_getCommandContent(mem, commandId, contentType))
  /\ saves' = saves
  /\ MemFrame /\ mem' = mem

MemQueries == {" ", "LS", "s1", "list", "-h", "x"}
MemLimits == {1, DefaultLimit}
MemLookupNames == {"ls", "LS", "git"}
MemContents == {"", "c1"}
MemCommandIds == {1, 2}
\* the id a saved command carries: none, or one a stored record may have
MemOwnIds == {NoId, 1, 2}
MemImportCommandSet == {c \in FacadeCommands : c.content = ""}
MemImportLists ==
  UNION {[1..k -> [cmd : MemImportCommandSet, id : {NoId, 1}]] : k \in 0..2}

InitMem ==
  /\ role = "host"
  /\ backend = "memory"
  /\ db = EmptyDb
  /\ snap = db
  /\ inTxn = FALSE
  /\ dbState = "null"
  /\ contentTypes = {}
  /\ pc = [t \in Tasks |-> "idle"]
  /\ loc = [t \in Tasks |-> NoLoc]
  /\ last = [t \in Tasks |-> NoCall]
  /\ ctx = [t \in Tasks |-> NoCtx]
  /\ faults = 0
  /\ saves = 0
  /\ initialized = FALSE
  /\ useMemoryFallback = FALSE
  /\ mem = EmptyMem
  /\ fpc = [t \in Tasks |-> "idle"]
  /\ fop = [t \in Tasks |-> NoOp]
  /\ fres = [t \in Tasks |-> NoResult]
  /\ initInfo = NoInit
  /\ calls = {}
  /\ ncalls = 0
  /\ OpsUnused

NextMem ==
  \/ \E c \in Commands, ownId \in MemOwnIds : MemSaveCommand(c, ownId)
  \/ \E cs \in MemImportLists : MemImportCommands(cs)
  \/ \E q \in MemQueries, l \in MemLimits : searchCommands("memory", q, l)
  \/ \E l \in MemLimits : getRecentCommands("memory", l)
  \/ \E n \in MemLookupNames : MemGetCommandByName(n)
  \/ \E id \in MemCommandIds : logCommandUsage("memory", id, "ls")
  \/ \E c \in MemContents : MemSaveCommandContent(1, c, "tldr")
  \/ MemGetCommandContent(1, "tldr")

SpecMem == InitMem /\ [][NextMem]_vars

(***************************************************************************)
(* Two callers of the host facade at once: each awaits ensureInitialized   *)
(* on its own, and every await lets the other run.                         *)
(***************************************************************************)
\* the one command the callers save besides looking up
ConcCommands == {c \in FacadeCommands : c.name = "cd" /\ c.content # ""}

InitFacadeConc ==
  /\ role = "host"
  /\ backend \in {"sqlite", "memory"}
  /\ db = EmptyDb
  /\ snap = db
  /\ inTxn = FALSE
  /\ dbState = "null"
  /\ contentTypes \in {{}, {"tldr"}}
  /\ pc = [t \in Tasks |-> "idle"]
  /\ loc = [t \in Tasks |-> NoLoc]
  /\ last = [t \in Tasks |-> NoCall]
  /\ ctx = [t \in Tasks |-> NoCtx]
  /\ faults = MaxFaults
  /\ saves = 0
  /\ initialized = FALSE
  /\ useMemoryFallback = FALSE
  /\ mem = EmptyMem
  /\ fpc = [t \in Tasks |-> "idle"]
  /\ fop = [t \in Tasks |-> NoOp]
  /\ fres = [t \in Tasks |-> NoResult]
  /\ initInfo = NoInit
  /\ calls = {}
  /\ ncalls = 0
  /\ OpsUnused

NextFacadeConc ==
  \E t \in Tasks :
    \/ CommandService_getCommandByName(t, "ls")
    \/ CommandService_init(t)
    \/ InitCount(t)
    \/ ImportLegacy(t)
    \/ InitDone(t)
    \/ ServeLookup(t)
    \/ \E c \in ConcCommands : CommandService_saveCommand(t, c, NoId)
    \/ StorageSave(t)
    \/ FallbackSave(t)
    \/ SaveReturn(t)
    \/ SaveStep(t)

SpecFacadeConc == InitFacadeConc /\ [][NextFacadeConc]_vars

(***************************************************************************)
(* Properties of saveCommand on the durable store.                         *)
(***************************************************************************)
\* the last call of task t has returned and nothing has run since
Returned(t) == last[t].valid /\ pc[t] = "idle"

RowsNamed(d, name) == {r \in d.commands : r.name = name}

\* the example rows of a command in sort_order, as <<example, sort_order>>
RECURSIVE SortByOrder(_)
SortByOrder(rows) ==
  IF rows = {} THEN <<>>
  ELSE LET r == CHOOSE x \in rows :
                  \A y \in rows : x.sort_order < y.sort_order
                                  \/ (x.sort_order = y.sort_order /\ x.id <= y.id)
       IN <<r>> \o SortByOrder(rows \ {r})

StoredExamples(d, cid) ==
  LET rows == SortByOrder({e \in d.examples : e.command_id = cid})
  IN [k \in 1..Len(rows) |-> <<rows[k].example, rows[k].sort_order>>]

\* C1: saveCommand is all-or-nothing: when one of the write statements of a
\* call failed, none of that call's writes is in the store after the call.
C1_AllOrNothing ==
  \A t \in Tasks : (Returned(t) /\ last[t].writeFailed) => db = last[t].pre

\* a command that carries no body reads back with no body
SameContent(given, read) == IF given = "" THEN read = Null ELSE read = given

\* C2: round trip: after saveCommand(C) committed, getCommandByName(C.name)
\* returns C's name, summary, examples in order, and content.
C2_RoundTrip ==
  \A t \in Tasks :
    (Returned(t) /\ last[t].outcome = "committed" /\ ~last[t].writeFailed) =>
      LET c == last[t].cmd
          r == getCommandByName(db, c.name, TRUE)
      IN /\ r.found
         /\ r.name = c.name
         /\ r.summary = c.summary
         /\ r.examples = c.examples
         /\ SameContent(c.content, r.content)

CategoryName(d, row) ==
  LET cat == {g \in d.categories : g.id = row.category_id}
  IN IF cat = {} THEN "" ELSE (CHOOSE g \in cat : TRUE).name

\* C3: upsert by name: one command row per name; a committed save of an
\* existing name keeps the row's id and leaves it with the summary,
\* stands_for and category of that save.
C3_UpsertByName ==
  /\ \A r1, r2 \in db.commands : r1.name = r2.name => r1 = r2
  /\ \A t \in Tasks :
       (Returned(t) /\ last[t].outcome = "committed"
          /\ RowsNamed(last[t].pre, last[t].cmd.name) # {}) =>
         LET c == last[t].cmd IN
         \A r \in RowsNamed(db, c.name) :
           /\ \A o \in RowsNamed(last[t].pre, c.name) : r.id = o.id
           /\ r.summary = c.summary
           /\ r.stands_for = StandsForParam(c)
           /\ CategoryName(db, r) = c.category

\* the name saved by the last call of t had example rows before the call
HadExamples(t) ==
  \E o \in RowsNamed(last[t].pre, last[t].cmd.name) :
    \E e \in last[t].pre.examples : e.command_id = o.id

\* C4: replace-all examples: after saveCommand(c) on a name with stored
\* examples, the stored example rows are exactly c.examples in order with
\* sort_order 0..n-1, also when c.examples is empty.
C4_ReplaceAllExamples ==
  \A t \in Tasks :
    (Returned(t) /\ last[t].outcome = "committed" /\ ~last[t].writeFailed
       /\ HadExamples(t)) =>
      LET c == last[t].cmd IN
      \A r \in RowsNamed(db, c.name) :
        StoredExamples(db, r.id) =
          [k \in 1..Len(c.examples) |-> <<c.examples[k], k - 1>>]

\* C5: saveCommand returns the boolean false whenever its transaction did
\* not commit, and true only when it committed.
C5_FalseUnlessCommitted ==
  \A t \in Tasks :
    Returned(t) =>
      /\ last[t].outcome # "committed" => last[t].ret = Bool(FALSE)
      /\ last[t].ret = Bool(TRUE) => last[t].outcome = "committed"

\* C5, second half: importCommands counts only the commands that committed.
C5_ImportCountsCommitted ==
  \A t \in Tasks :
    ctx[t].kind = "importDone" => ctx[t].imported = ctx[t].committed

\* task t has a saveCommand call in flight that has not reached its end
InFlight(t) == pc[t] # "idle"

\* C6: concurrent saveCommand calls for different names are each atomic:
\* while a call is in flight none of its writes is durable (no other call's
\* COMMIT publishes them), and a call that reports success has its command
\* stored (no other call's ROLLBACK discards it).
C6_EachCallAtomic ==
  \A t \in Tasks :
    /\ (InFlight(t) /\ faults = 0) =>
         RowsNamed(Durable, loc[t].cmd.name) = RowsNamed(loc[t].pre, loc[t].cmd.name)
    /\ (Returned(t) /\ last[t].ret.val /\ faults = 0) =>
         \E r \in RowsNamed(db, last[t].cmd.name) : r.summary = last[t].cmd.summary

\* C6, second half alone: a call that reports success keeps its command row
C6_SuccessKeepsWrites ==
  \A t \in Tasks :
    (Returned(t) /\ last[t].ret.val /\ ~last[t].faulted) =>
      \E r \in RowsNamed(db, last[t].cmd.name) : r.summary = last[t].cmd.summary

(***************************************************************************)
(* Properties of the facade.                                               *)
(***************************************************************************)
\* the seed records whose name or description contains q, case-insensitively
SeedHits(q) ==
  SelectSeq(commandData,
    LAMBDA c : \/ includes(toLowerCase(Chars(c.name)), toLowerCase(Chars(q)))
               \/ includes(toLowerCase(Chars(c.description)),
                           toLowerCase(Chars(q))))

\* the first limit seed records that match q, as commands
SubstringMatches(q, limit) ==
  [k \in 1..(IF Len(SeedHits(q)) < limit THEN Len(SeedHits(q)) ELSE limit) |->
     [name |-> SeedHits(q)[k].name, standsFor |-> SeedHits(q)[k].standsFor,
      summary |-> SeedHits(q)[k].description,
      category |-> SeedHits(q)[k].category,
      examples |-> SeedHits(q)[k].examples, content |-> ""]]

\* the first seed record with exactly this name, as a command, if any
SeedNamed(name) ==
  LET hits == SelectSeq(commandData, LAMBDA c : c.name = name)
  IN IF hits = <<>> THEN <<>>
     ELSE <<[name |-> hits[1].name, standsFor |-> hits[1].standsFor,
             summary |-> hits[1].description, category |-> hits[1].category,
             examples |-> hits[1].examples, content |-> ""]>>

\* the host facade's init() saw storage initialization throw
InitFailed == role = "host" /\ initInfo.outcome = "reject"

\* C7: when durable-store initialization throws during the host facade's
\* first use, the facade marks memory-fallback, and a searchCommands(q) with
\* a non-blank q returns the seed commands found by the in-memory substring
\* match (on name or description), not an exception.
C7_FallbackSearchAnswers ==
  /\ InitFailed => useMemoryFallback
  /\ \A t \in Tasks :
       (InitFailed /\ fres[t].valid /\ fres[t].op = "search"
          /\ ~Blank(fres[t].query)) =>
         /\ fres[t].route = "local"
         /\ fres[t].value = SubstringMatches(fres[t].query, fres[t].limit)

\* C7 witness: after a failed initialization a non-blank search returned a hit
C7_Witness ==
  \E t \in Tasks :
    /\ InitFailed /\ useMemoryFallback
    /\ fres[t].valid /\ fres[t].op = "search" /\ ~Blank(fres[t].query)
    /\ fres[t].route = "local" /\ fres[t].value # <<>>

\* the task's last facade call was answered without any backend
AnsweredLocally(r) ==
  CASE r.op = "search" ->
         /\ r.route \in {"recent", "local"}
         /\ r.value = SubstringMatches(IF Blank(r.query) THEN "" ELSE r.query,
                                       r.limit)
    [] r.op = "lookup" ->
         /\ r.route = "local"
         /\ r.value = SeedNamed(r.name)
    [] r.op = "save" -> r.route = "none" /\ r.ret = Bool(TRUE)
    [] OTHER -> FALSE

\* C8 as stated: in memory-fallback mode a command saved through the facade
\* is held by the in-memory store.
C8_SavedCommandHeldInMemory ==
  \A t \in Tasks :
    (useMemoryFallback /\ fres[t].valid /\ fres[t].op = "save") =>
      Memory_getCommandByName(mem, fres[t].cmd.name) # <<>>

\* C8, amended: once memory-fallback is marked it stays marked, and no later
\* facade call reaches the storage service, the durable store or the
\* in-memory store: search and lookup are answered by the facade's own scan
\* of the seed list, and saveCommand stores nothing and returns true.
C8_FallbackPermanent ==
  [][useMemoryFallback =>
       /\ useMemoryFallback'
       /\ calls' = calls
       /\ db' = db /\ snap' = snap /\ dbState' = dbState /\ mem' = mem
       /\ \A t \in Tasks : fres'[t].valid => AnsweredLocally(fres'[t])]_vars

\* C8 witness: in memory-fallback mode a save of a command that is not a
\* seed reported success
C8_Witness ==
  \E t \in Tasks :
    /\ useMemoryFallback /\ fres[t].valid /\ fres[t].op = "save"
    /\ fres[t].ret = Bool(TRUE)
    /\ SeedNamed(fres[t].cmd.name) = <<>>

\* the seed list as the commands handed to the write path
SeedCommands == [k \in DOMAIN commandData |-> adaptLegacyCommand(commandData[k])]

\* C9: the host facade initializing against a store that reports zero
\* commands passes every one of the N seed records to the write path, and
\* afterwards the command count is N; when the store reports a count above
\* zero nothing is imported.  (No statement fails during the import.)
C9_ImportOnEmptyStore ==
  (role = "host" /\ initInfo.counted /\ initInfo.done /\ faults = 0) =>
    IF initInfo.count = 0
    THEN /\ initInfo.imported = SeedCommands
         /\ initInfo.countAfter = Len(commandData)
         /\ backend = "sqlite" =>
              \A k \in DOMAIN commandData : RowsNamed(db, commandData[k].name) # {}
    ELSE /\ initInfo.imported = <<>>
         /\ initInfo.countAfter = initInfo.count

\* C9 witness: an empty durable store was initialized and the seeds imported
C9_Witness ==
  /\ role = "host" /\ backend = "sqlite" /\ faults = 0
  /\ initInfo.counted /\ initInfo.done /\ initInfo.count = 0
  /\ initInfo.imported = SeedCommands
  /\ Cardinality(db.commands) = Len(commandData)

C11_BridgeFailureAnsweredLocally ==
  \A t \in Tasks :
    (role = "display" /\ fres[t].valid /\ ~fres[t].bridgeOk) =>
      CASE fres[t].op = "search" ->
             fres[t].value = SubstringMatches(fres[t].query, fres[t].limit)
        [] fres[t].op = "lookup" -> fres[t].value = SeedNamed(fres[t].name)
        [] OTHER -> TRUE

\* C11 witness: the bridge failed and a search still returned a seed command
C11_Witness ==
  \E t \in Tasks :
    /\ role = "display" /\ fres[t].valid /\ ~fres[t].bridgeOk
    /\ fres[t].op = "search" /\ fres[t].value # <<>>

(***************************************************************************)
(* Properties of the single-statement operations.                          *)
(***************************************************************************)
\* what getRecentCommands(limit) returns on the store and statement outcome
\* the last operation ran against
RecentNow(r) ==
  IF r.store = "sqlite" THEN SQLite_getRecentCommands(db, r.limit, r.ok)
  ELSE Memory_getRecentCommands(mem, r.limit)

\* C12: on the durable adapter and on the in-memory store, a search with the
\* empty query or a whitespace-only query returns exactly the list
\* getRecentCommands(limit) returns on that store.
C12_BlankSearchIsRecent ==
  (ores.op = "search" /\ Blank(ores.query)) => ores.value = RecentNow(ores)

\* C12 witness: a whitespace-only search of the durable store returned commands
C12_Witness ==
  /\ ores.op = "search" /\ ores.store = "sqlite" /\ ores.query = " "
  /\ Len(ores.value) = 2

\* the query has characters and every one of them is disallowed
OnlyDisallowed(q) == Chars(q) # <<>> /\ \A k \in DOMAIN Chars(q) : ~Kept(Chars(q)[k])

\* C13: a durable search whose query holds only disallowed characters issues
\* no MATCH statement and returns what getRecentCommands(limit) returns.
C13_DisallowedOnlySearchIsRecent ==
  (ores.op = "search" /\ ores.store = "sqlite" /\ OnlyDisallowed(ores.query)) =>
    (ores.statement = "recent" /\ ores.value = RecentNow(ores))

(***************************************************************************)
(* Properties of the TTL cache.                                            *)
(***************************************************************************)
\* C14: getFromCache(key) returns null at every time later than the expiry
\* of the entry stored for the key, swept or not; before the expiry, when its
\* statement succeeds, it returns the entry the latest successful addToCache
\* stored for that key.
C14_ExpiredEntryInvisible ==
  ores.op = "getFromCache" =>
    LET w == written[ores.name] IN
    /\ (~w.stored \/ ores.at > w.expires_at) => ores.value = <<>>
    /\ (w.stored /\ ores.at < w.expires_at /\ ores.ok) =>
         ores.value = <<[key |-> ores.name, content |-> w.content,
                         expiresAt |-> w.expires_at]>>

\* C14 witness: a lookup after the expiry returned null while the expired row
\* was still in the table
C14_Witness ==
  /\ ores.op = "getFromCache" /\ ores.ok /\ ores.value = <<>>
  /\ written[ores.name].stored /\ ores.at > written[ores.name].expires_at
  /\ \E r \in apiCache : r.cache_key = ores.name

\* C15: clearExpiredCache deletes exactly the cache rows whose expiry is in
\* the past (none when its statement fails), returns the number of rows it
\* deleted, and leaves every unexpired row and every other table as it was.
C15_SweepDeletesExpiredOnly ==
  ores.op = "clearExpiredCache" =>
    LET unexpired == {r \in ores.pre.cache : r.expires_at >= ores.at} IN
    /\ apiCache \subseteq ores.pre.cache
    /\ unexpired \subseteq apiCache
    /\ ores.ok => apiCache = unexpired
    /\ ores.value = Cardinality(ores.pre.cache \ apiCache)
    /\ db = ores.pre.db

\* C15 witness: a sweep deleted an expired row and left a row that was not
C15_Witness ==
  /\ ores.op = "clearExpiredCache" /\ ores.value = 1
  /\ apiCache # {} /\ db.commands # {}

\* the commands of table state d that reference category g
Referencing(d, g) == {c \in d.commands : c.category_id = g}

\* C16: deleting a category that commands reference deletes no command row
\* and sets the category reference of those commands to null; each of them
\* is still returned by getCommandByName, with an empty category.
C16_CategoryDeleteKeepsCommands ==
  (ores.op = "deleteCategory" /\ ores.ok) =>
    /\ Ids(db.commands) = Ids(ores.pre.db.commands)
    /\ \A c \in ores.pre.db.commands :
         IF c.category_id = ores.limit
         THEN /\ [c EXCEPT !.category_id = NoId] \in db.commands
              /\ getCommandByName(db, c.name, TRUE).found
              /\ getCommandByName(db, c.name, TRUE).category = ""
         ELSE c \in db.commands

\* C16 witness: a category one command referenced was deleted
C16_Witness ==
  /\ ores.op = "deleteCategory" /\ ores.ok
  /\ Referencing(ores.pre.db, ores.limit) # {}
  /\ \A g \in db.categories : g.id # ores.limit

(***************************************************************************)
(* Properties of DatabaseService.initialize.                               *)
(***************************************************************************)
\* no two rows of app_settings share a key
UniqueKeys(rows) == \A a \in rows, b \in rows : a.key = b.key => a = b

\* C17: initialize() called again after it succeeded returns true, opens no
\* further connection and leaves commands, content types and settings as
\* they were; a schema bootstrap run again on an existing database file adds
\* no duplicate seed row and loses no stored row.
C17_InitializeIdempotent ==
  ores.op = "initialize" =>
    /\ boot.pre.initialized =>
         /\ ores.value = "true"
         /\ boot.connections = boot.pre.connections
         /\ db = boot.pre.db
         /\ contentTypes = boot.pre.contentTypes
         /\ boot.settings = boot.pre.settings
    /\ boot.pre.fileExists => db = boot.pre.db
    /\ boot.pre.contentTypes \subseteq contentTypes
    /\ boot.pre.settings \subseteq boot.settings
    /\ boot.pre.settings # {} => boot.settings = boot.pre.settings
    /\ UniqueKeys(boot.settings)

\* C17 witness: initialize() was called on a service already initialized over
\* stored commands and seeded settings
C17_Witness ==
  /\ ores.op = "initialize" /\ boot.pre.initialized /\ ores.value = "true"
  /\ db.commands # {} /\ boot.settings = SeedSettings

\* C18: whenever a step of initialize() failed (directory or file I/O, the
\* open, a PRAGMA, a schema statement), initialize() does not report success.
C18_FailurePropagated ==
  (ores.op = "initialize" /\ boot.failed # NoneFailed) => ores.value # "true"

\* what each read or write of the durable adapter hands back when it recovers
RecoveryValue(op) ==
  CASE op \in {"search", "recent"} -> <<>>
    [] op = "lookup" -> NoCommand
    [] op = "content" -> Null
    [] op \in {"saveContent", "log"} -> Bool(FALSE)
    [] op = "count" -> 0

DurableOps == {"search", "recent", "lookup", "content", "saveContent", "log", "count"}

\* C19: when a statement of one of the durable adapter's single operations
\* fails, or the store is not initialized, the operation returns its recovery
\* value ([] for searchCommands and getRecentCommands, null for
\* getCommandByName and getCommandContent, false for saveCommandContent and
\* logCommandUsage, 0 for getCommandCount) and the stored tables are as before.
C19_FailureRecoveredLocally ==
  (ores.store = "sqlite" /\ ores.op \in DurableOps /\ ~ores.ok) =>
    /\ ores.value = RecoveryValue(ores.op)
    /\ db = ores.pre.db
    /\ apiCache = ores.pre.cache

\* C19 witness: the INSERT of saveCommandContent failed on an open store
\* holding commands
C19_Witness ==
  /\ ores.op = "saveContent" /\ ~ores.ok /\ ores.statement = "insert"
  /\ dbState = "open" /\ ores.limit \in Ids(db.commands)
  /\ ores.value = Bool(FALSE)

Named(commands, name) == {k \in DOMAIN commands : commands[k].cmd.name = name}

\* the last call was a saveCommand on the in-memory store
MemSaved == ores.store = "memory" /\ ores.op = "save"

\* C21: the in-memory saveCommand upserts by name: a stored command of that
\* name is replaced where it stands and keeps its id, every other entry
\* untouched; a new name is appended with id 1 on the empty store and the
\* largest stored id plus one otherwise; the count grows by one only for a
\* new name
C21_MemoryUpsertByName ==
  MemSaved =>
    LET pre == ores.pre.mem.commands
        post == mem.commands
        c == ores.value[1]
    IN IF Named(pre, c.name) # {}
       THEN /\ Len(post) = Len(pre)
            /\ \A k \in DOMAIN pre :
                 post[k] = IF k \in Named(pre, c.name)
                           THEN [id |-> pre[k].id, cmd |-> c]
                           ELSE pre[k]
       ELSE /\ Len(post) = Len(pre) + 1
            /\ SubSeq(post, 1, Len(pre)) = pre
            /\ post[Len(post)].cmd = c
            /\ post[Len(post)].id =
                 IF pre = <<>> THEN 1
                 ELSE 1 + SetMax({pre[k].id : k \in DOMAIN pre})

\* a second command is stored, then the first is saved again with other fields
C21_Witness ==
  /\ MemSaved
  /\ Len(ores.pre.mem.commands) = 2
  /\ ores.pre.mem.commands[1].cmd.name = ores.value[1].name
  /\ ores.pre.mem.commands[1].cmd # ores.value[1]
  /\ mem.commands[2].id = 2

\* q occurs in text, letter case aside
Occurs(q, text) ==
  LET n == toLowerCase(Chars(q))
      h == toLowerCase(text)
  IN \E i \in 1..(Len(h) - Len(n) + 1) : SubSeq(h, i, i + Len(n) - 1) = n

\* q occurs in the name, the summary, stands_for or one example of cmd
OccursIn(q, cmd) ==
  \/ Occurs(q, Chars(cmd.name))
  \/ Occurs(q, Chars(cmd.summary))
  \/ Occurs(q, Chars(cmd.standsFor))
  \/ \E k \in DOMAIN cmd.examples : Occurs(q, TextChars(cmd.examples[k]))

\* the i-th smallest member of a set of positions
Kth(S, i) == CHOOSE k \in S : Cardinality({j \in S : j <= k}) = i

\* the last call was a search of the in-memory store for a non-blank query
MemSearched ==
  ores.store = "memory" /\ ores.op = "search" /\ ~Blank(ores.query)

\* C22: an in-memory search for a non-blank q returns, in insertion order and
\* cut to limit, exactly the stored commands in which q occurs,
\* case-insensitively, in the name, the summary, stands_for or an example
C22_MemorySearchIsSubstringScan ==
  MemSearched =>
    LET stored == mem.commands
        H == {k \in DOMAIN stored : OccursIn(ores.query, stored[k].cmd)}
        n == IF ores.limit < Cardinality(H) THEN ores.limit ELSE Cardinality(H)
    IN /\ Len(ores.value) = n
       /\ \A i \in 1..n : ores.value[i] = stored[Kth(H, i)]

\* of two stored commands only the second holds "-h", and only in an example
C22_Witness ==
  /\ MemSearched
  /\ ores.query = "-h"
  /\ Len(mem.commands) = 2
  /\ ~OccursIn("-h", mem.commands[1].cmd)
  /\ ~Occurs("-h", Chars(mem.commands[2].cmd.name))
  /\ Len(ores.value) = 1
  /\ ores.value[1] = mem.commands[2]

\* a and b differ in letter case at most
SameIgnoringCase(a, b) == toLowerCase(Chars(a)) = toLowerCase(Chars(b))

\* C23: lookup by name is case-normalized: getCommandByName called with a
\* string that differs only in letter case from the name a command was
\* saved under returns that command
C23_LookupCaseNormalized ==
  (ores.store = "memory" /\ ores.op = "lookup") =>
    \A k \in DOMAIN mem.commands :
      SameIgnoringCase(mem.commands[k].cmd.name, ores.name)
        => ores.value = <<mem.commands[k].cmd>>

(***************************************************************************)
(* Properties of the durable store's recent list.                          *)
(***************************************************************************)
\* the timestamps of the history rows of the command named name
UsedAt(d, name) ==
  {d.history[k].timestamp :
     k \in {j \in DOMAIN d.history :
              \E c \in d.commands : c.name = name /\ c.id = d.history[j].command_id}}

Letters == <<"c", "d", "g", "i", "l", "s", "t">>
LetterRank(ch) == CHOOSE k \in DOMAIN Letters : Letters[k] = ch

\* a comes before b in the alphabet; the names in use differ in their first
\* letter
Alphabetical(a, b) == LetterRank(Chars(a)[1]) < LetterRank(Chars(b)[1])

\* a is listed before b
ListedBefore(d, a, b) ==
  LET ta == UsedAt(d, a)
      tb == UsedAt(d, b)
  IN \/ ta # {} /\ tb = {}
     \/ ta # {} /\ tb # {} /\ SetMax(ta) > SetMax(tb)
     \/ /\ (ta = {} /\ tb = {}) \/ (ta # {} /\ tb # {} /\ SetMax(ta) = SetMax(tb))
        /\ Alphabetical(a, b)

\* the last call was a durable getRecentCommands whose statement ran
RecentListed == ores.store = "sqlite" /\ ores.op = "recent" /\ ores.ok

C25_SearchFindsMatches ==
  \A t \in Tasks :
    (/\ fres[t].valid /\ fres[t].op = "search" /\ ~Blank(fres[t].query)
     /\ fres[t].limit > 0 /\ initInfo.imported = SeedCommands /\ faults = 0) =>
      LET q == fres[t].query
          v == fres[t].value
          scanned == fres[t].route = "local"
                       \/ (fres[t].route = "remote" /\ ~fres[t].bridgeOk)
      IN /\ \A k \in DOMAIN v :
              IF scanned
              THEN Occurs(q, Chars(v[k].name)) \/ Occurs(q, Chars(v[k].summary))
              ELSE OccursIn(q, v[k])
         /\ SeedHits(q) # <<>> => v # <<>>

\* the names in the source that answers task t's lookup: the seed list on the
\* facade's own scan, else the store of the host process
ActiveNames(t) ==
  IF fres[t].route = "local" \/ ~fres[t].bridgeOk
  THEN {commandData[k].name : k \in DOMAIN commandData}
  ELSE IF backend = "memory"
       THEN {mem.commands[k].cmd.name : k \in DOMAIN mem.commands}
       ELSE {c.name : c \in db.commands}

\* a lookup answered from the seed list or from a usable store, while no
\* statement failed and no save was under way
Looked(t) ==
  /\ fres[t].valid /\ fres[t].op = "lookup" /\ faults = 0
  /\ fpc[t] = "idle" /\ pc[t] = "idle"
  /\ \/ fres[t].route = "local" \/ ~fres[t].bridgeOk
     \/ backend = "memory" \/ dbState = "open"

C26_LookupByExactName ==
  \A t \in Tasks : Looked(t) =>
    IF fres[t].name \in ActiveNames(t)
    THEN fres[t].value # <<>> /\ fres[t].value[1].name = fres[t].name
    ELSE fres[t].value = <<>>

\* C26: the facade's getCommandByName(n) returns a command named n when the
\* active data source holds one and null when it holds none, and
\* getCommandNames() returns the name of every command of the seed list
C26_LookupAndNames ==
  /\ C26_LookupByExactName
  /\ (ores.store = "facade" /\ ores.op = "names") =>
       \A k \in DOMAIN commandData :
         \E i \in DOMAIN ores.value : ores.value[i] = commandData[k].name

(***************************************************************************)
(* Properties of the usage history and of what the application deletes.    *)
(***************************************************************************)
\* the call of task t committed and left exactly one more history row, for
\* the saved command and with its name as raw_input
OneRowAppended(t) ==
  LET before == last[t].pre.history
      after == db.history
  IN /\ Len(after) = Len(before) + 1
     /\ SubSeq(after, 1, Len(before)) = before
     /\ after[Len(after)].raw_input = last[t].cmd.name
     /\ \E r \in RowsNamed(db, last[t].cmd.name) :
          after[Len(after)].command_id = r.id

\* no step updates or removes a history row
HistoryKept ==
  /\ Len(db'.history) >= Len(db.history)
  /\ SubSeq(db'.history, 1, Len(db.history)) = db.history

\* C27: every committed saveCommand on the durable store appends exactly one
\* history row, whose command_id is the saved command's id and whose
\* raw_input is the command's name; no history row is ever updated or
\* removed, so the history never gets shorter
C27_HistoryAppendOnly ==
  /\ [](\A t \in Tasks :
         (Returned(t) /\ last[t].outcome = "committed") => OneRowAppended(t))
  /\ [][HistoryKept]_vars

StoredNames(d) == {c.name : c \in d.commands}
ContentKeys(d) == {<<b.command_id, b.type>> : b \in d.contents}
MemNames(m) == {m.commands[k].cmd.name : k \in DOMAIN m.commands}

\* a ROLLBACK ran: the tables are again as they were at BEGIN
RolledBack == (\E t \in Tasks : pc[t] = "rollback") /\ db' = snap

\* the step removes no command, category, content or history row, and no
\* example but those of the command its saveCommand is writing
NothingDeleted ==
  /\ Ids(db.commands) \subseteq Ids(db'.commands)
  /\ StoredNames(db) \subseteq StoredNames(db')
  /\ Ids(db.categories) \subseteq Ids(db'.categories)
  /\ ContentKeys(db) \subseteq ContentKeys(db')
  /\ HistoryKept
  /\ LET gone == db.examples \ db'.examples
     IN gone # {} =>
          \E t \in Tasks : /\ pc[t] = "exDelete"
                            /\ \A e \in gone : e.command_id = loc[t].commandId

\* C28: no operation of the facade or of the stores deletes a command, a
\* category, a content row or a history row; the only rows a step removes
\* are the previous examples of the command being re-saved (expired cache
\* rows aside, C15), and the stored command names only grow, in the
\* durable store and in the in-memory store.  A ROLLBACK discards what its
\* own transaction wrote and nothing that stood at BEGIN.
C28_NothingHardDeleted ==
  [][/\ RolledBack \/ NothingDeleted
     /\ StoredNames(snap) \subseteq StoredNames(snap')
     /\ MemNames(mem) \subseteq MemNames(mem')]_vars

\* beside another command, a stored command was saved again and committed:
\* its previous example rows are gone, both commands are still stored
C28_Witness ==
  \E t \in Tasks :
    /\ Returned(t) /\ last[t].existed /\ last[t].outcome = "committed"
    /\ \E e \in last[t].pre.examples :
         e.command_id = last[t].commandId /\ e \notin db.examples
    /\ Cardinality(last[t].pre.commands) = 2
    /\ StoredNames(db) = StoredNames(last[t].pre)

(***************************************************************************)
(* Properties of the search index and of the content bodies.               *)
(***************************************************************************)
\* what the index row of command c would hold
Projection(d, c) ==
  [rowid |-> c.id, name |-> c.name, stands_for |-> c.stands_for,
   summary |-> c.summary,
   examples |-> GroupConcatExamples(d, c.id),
   content |-> {b.content : b \in {x \in d.contents : x.command_id = c.id}},
   category |-> CategoryName(d, c)]

\* C29: after every committed relational mutation the search index holds,
\* for each command, exactly one row equal to the projection of the current
\* relational state, and no row for a command that does not exist
C29_IndexIsProjection ==
  (\E t \in Tasks : Returned(t) /\ last[t].outcome = "committed") =>
    /\ \A c \in db.commands :
         {r \in command_search(db) : r.rowid = c.id} = {Projection(db, c)}
    /\ \A r \in command_search(db) : r.rowid \in Ids(db.commands)

\* the bodies the in-memory store holds for a command and a content type
BodiesOf(m, commandId, contentType) ==
  {e.content : e \in {x \in m.contentStore : /\ x.commandId = commandId
                                               /\ x.contentType = contentType}}

\* C30: at most one content body exists per command and content type, and
\* getCommandContent returns the body most recently saved for the pair, the
\* empty string included (here: in the in-memory store)
C30_ContentReadsBack ==
  /\ \A e \in mem.contentStore :
       Cardinality(BodiesOf(mem, e.commandId, e.contentType)) = 1
  /\ (ores.store = "memory" /\ ores.op = "content") =>
       \A body \in BodiesOf(mem, ores.limit, ores.query) : ores.value = body

(***************************************************************************)
(* Properties of the in-memory recent list.                                *)
(***************************************************************************)
\* the last call was a getRecentCommands on the in-memory store
MemRecentListed == ores.store = "memory" /\ ores.op = "recent"

\* a logCommandUsage on the in-memory store appends to the history and leaves
\* the commands and the content map as they are
LogTouchesHistoryOnly ==
  (ores'.store = "memory" /\ ores'.op = "log" /\ ores' # ores) =>
    /\ mem'.commands = mem.commands
    /\ mem'.contentStore = mem.contentStore
    /\ Len(mem'.history) <= Len(mem.history) + 1
    /\ SubSeq(mem'.history, 1, Len(mem.history)) = mem.history

\* C31: the in-memory getRecentCommands(limit) returns the first
\* min(limit, count) stored records in insertion order, whatever usage was
\* logged; logCommandUsage changes the history list only, never the command
\* list or its order
C31_MemoryRecentIsInsertionOrder ==
  /\ [](MemRecentListed =>
          LET n == IF ores.limit < Len(mem.commands) THEN ores.limit
                   ELSE Len(mem.commands)
          IN /\ Len(ores.value) = n
             /\ \A i \in 1..n : ores.value[i] = mem.commands[i])
  /\ [][LogTouchesHistoryOnly]_vars

\* usage of the second command was logged, and the list still starts with
\* the first
C31_Witness ==
  /\ MemRecentListed
  /\ Len(mem.commands) = 2
  /\ \E h \in DOMAIN mem.history : mem.history[h].commandId = mem.commands[2].id
  /\ \A h \in DOMAIN mem.history : mem.history[h].commandId # mem.commands[1].id
  /\ ores.value # <<>>
  /\ ores.value[1] = mem.commands[1]

(***************************************************************************)
(* Properties of the query sanitizer.                                      *)
(***************************************************************************)
\* C32: the sanitized query has no leading or trailing whitespace, holds
\* only word characters, whitespace, '*', '"' and '-', holds no run of two
\* whitespace characters, and sanitizing it again returns it unchanged
C32_SanitizedIsClean ==
  (ores.store = "sqlite" /\ ores.op = "search") =>
    LET c == sanitizeFtsQuery(ores.query)
    IN /\ trim(c) = c
       /\ \A k \in DOMAIN c : Kept(c[k])
       /\ \A k \in 1..(Len(c) - 1) : ~(c[k] = " " /\ c[k + 1] = " ")
       /\ cleaned(c) = c

(***************************************************************************)
(* Properties of the facade's initialization.                              *)
(***************************************************************************)
\* the host facade's init() is over and storage initialization did not
\* succeed: it threw or it returned false
InitUnsuccessful ==
  role = "host" /\ initInfo.done /\ initInfo.outcome \in {"false", "reject"}

\* C33: whenever durable-store initialization does not succeed, by rejecting
\* or by resolving to false, the host facade marks memory-fallback, imports
\* nothing, and routes no call to the store that failed to initialize
C33_FailedInitMarksFallback ==
  InitUnsuccessful =>
    /\ useMemoryFallback
    /\ initInfo.imported = <<>>
    /\ \A t \in Tasks : fres[t].valid => fres[t].route # "storage"

\* a caller is between storageService.initialize() and the end of init()
InsideInit(t) == fpc[t] \in {"count", "import"}

SeedNames == {commandData[k].name : k \in DOMAIN commandData}

\* C34: on the host facade the seed import runs at most once, whatever
\* facade operations are started before the first initialization is over: no
\* two callers are inside init() together, no more seed records are passed to
\* the write path than the seed list holds, and no seed command has two
\* history rows.
C34_SeedImportedOnce ==
  /\ \A t1, t2 \in Tasks : (InsideInit(t1) /\ InsideInit(t2)) => t1 = t2
  /\ Len(initInfo.imported) <= Len(commandData)
  /\ \A i, j \in DOMAIN db.history :
       (db.history[i].raw_input \in SeedNames
          /\ db.history[i].raw_input = db.history[j].raw_input) => i = j

\* C35: importCommands returns the number of commands that were stored: an
\* import into an empty in-memory store returns what getCommandCount()
\* reports afterwards.
C35_ImportReturnsStored ==
  (ores.store = "memory" /\ ores.op = "import" /\ ores.pre.mem.commands = <<>>) =>
    ores.value = Memory_getCommandCount(mem)

\* an initialize() call of task t has created its handle and not resolved
Initializing(t) == pc[t] \in {"opened", "schema"}

\* C36: initialize() calls issued before the first has completed open one
\* connection between them and run the schema bootstrap once; a call that
\* reports success leaves this.db on the connection it opened; and
\* initialized is true only while the connection is open.
C36_OneConnectionPerBoot ==
  /\ \A t1, t2 \in Tasks :
       (Initializing(t1) /\ Initializing(t2)) =>
         boot.opened[t1] = boot.opened[t2]
  /\ \A i, j \in DOMAIN boot.schemaRuns :
       (boot.schemaRuns[i] # NoId /\ boot.schemaRuns[i] = boot.schemaRuns[j]) => i = j
  /\ (ores.op = "initialize" /\ ores.value = "true" /\ ores.limit # NoId
        /\ dbState = "open") => boot.handle = ores.limit
  /\ boot.initialized => dbState = "open"

\* C37: in the in-memory store no two records share a name and no two share
\* an id, whatever saveCommand and importCommands calls were made and
\* whatever id the saved commands carried.
C37_MemoryKeysUnique ==
  \A i, j \in DOMAIN mem.commands :
    (mem.commands[i].cmd.name = mem.commands[j].cmd.name
       \/ mem.commands[i].id = mem.commands[j].id) => i = j

\* a command was saved carrying the id of another stored record
C37_Witness ==
  /\ ores.store = "memory" /\ ores.op = "save" /\ ores.limit # NoId
  /\ \E k \in DOMAIN mem.commands :
       mem.commands[k].cmd.name # ores.name /\ mem.commands[k].id = ores.limit

\* the name of a returned command; the in-memory store returns its records
HitName(store, hit) == IF store = "memory" THEN hit.cmd.name ELSE hit.name

\* a search or a recent list was answered by one of the three backends
Searched == ores.op \in {"search", "recent"}

\* C38: whatever the limit (0 and up), the query and the backend,
\* searchCommands and getRecentCommands return at most limit commands and
\* no command twice.
C38_AtMostLimitNoRepeat ==
  Searched =>
    /\ Len(ores.value) <= ores.limit
    /\ \A i, j \in DOMAIN ores.value :
         HitName(ores.store, ores.value[i]) = HitName(ores.store, ores.value[j])
           => i = j

\* a search with more matches than its limit was cut to the limit
C38_Witness ==
  /\ Searched /\ ores.op = "search" /\ ores.limit = 1 /\ Len(ores.value) = 1
  /\ \/ ores.store = "facade"
          /\ Len(memorySearchCommands(ores.query, DefaultLimit)) > 1
     \/ ores.store = "memory"
          /\ Len(Memory_searchCommands(mem, ores.query, DefaultLimit)) > 1
     \/ ores.store = "sqlite"
          /\ Len(SQLite_searchCommands(db, ores.query, DefaultLimit, TRUE).value) > 1

====
